---- MODULE Spec2Model ----
(***************************************************************************)
(* Query construction of the races and sports repositories                 *)
(* (racing/db/races.go, sports/db/sports.go): the filter compiler          *)
(* applyFilter, the order compiler applyOrder with its live column-catalog *)
(* lookup, and the List request that runs them against the store; the     *)
(* main query and the row scanners scanRaces / scanEvents, GetByID, the    *)
(* annotators addStatus / addDerivedFields, and Init with its sync.Once    *)
(* gate around seed.                                                       *)
(*                                                                         *)
(* Five specifications share the variables: Spec (query construction),     *)
(* SpecAnnotate (the annotator called directly under a running clock),     *)
(* SpecInit (concurrent Init calls), SpecRead (List and GetByID end to end *)
(* against a seeded table whose columns another actor alters) and          *)
(* SpecCursors (the same requests with an account of the row cursors they  *)
(* leave open).                                                            *)
(*                                                                         *)
(* SQL text is a sequence of one-character strings, so that equality of    *)
(* two texts is byte equality and strings.ToUpper, strings.Repeat and      *)
(* strings.Join are computed character by character.  A Go pointer or nil  *)
(* slice is an option: <<>> is nil and <<v>> points to v.                  *)
(***************************************************************************)
EXTENDS Integers, Sequences, FiniteSets, TLC

VARIABLES
    repo,        \* which repository this instance is: "races" or "sports"
    columns,     \* column names of the repository's table, in table order; <<>> while the table does not exist
    once,        \* state of the repository's sync.Once gate (TRUE once Init has run seed)
    pc,          \* position of the List request: "idle", "order", "query", "done"
    filter,      \* List's filter argument
    order,       \* List's order argument
    query,       \* List's local `query`
    args,        \* List's local `args`
    filterQuery, \* the query applyFilter returned, i.e. the input query of applyOrder
    catalog,     \* what the applyOrder call did with the store: catalog queries issued, failure,
                 \* the catalog it fetched (validColumns) and the rows of the catalog cursor
    listErr,     \* the error the request returns: "none", "query" (the main query failed),
                 \* "scan" (a row could not be scanned) or "ErrCantFindID"
    op,          \* the operation in progress: "none", "List", "GetByID", or "annotate" for a
                 \* direct call of the annotator
    executed,    \* the main statements this request sent to the store, each with its arguments
    mainAnswer,  \* what the store answered to the request's main statement
    table,       \* rows of the repository's table, in rowid order
    now,         \* the wall clock, in nanoseconds since the Unix epoch
    entities,    \* the collection being scanned and annotated (nil or a slice of entities)
    idx,         \* position of the annotator's loop in entities
    annotations, \* annotator calls made by this request, or by the caller on one collection
    given,       \* the collection as the annotator received it
    evaluatedAt, \* per annotated entity, the reading of time.Now() its status was decided with
                 \* (nil when the loop took no reading for it)
    returned,    \* the value the request returned: a slice for List, a pointer for GetByID
    initCalls,   \* per caller of Init: where its call is, and its local `err`
    onceM,       \* holder of the mutex of the sync.Once gate (0: unlocked)
    seedRuns,    \* executions of seed started so far
    seedEnds,    \* executions of seed finished so far
    seedStep,    \* statements the running seed has executed
    seedErr,     \* the local `err` of the running seed
    openCursors  \* row cursors left neither exhausted nor closed by the function that read
                 \* them (kept account of in SpecCursors)

\* the variables of row reading and annotation
rowVars == <<table, now, entities, idx, annotations, given, evaluatedAt, returned>>

\* the variables of concurrent Init calls
initVars == <<initCalls, onceM, seedRuns, seedEnds, seedStep, seedErr>>

vars == <<repo, columns, once, pc, filter, order, query, args, filterQuery, catalog, listErr,
          op, executed, mainAnswer, rowVars, initVars, openCursors>>

-----------------------------------------------------------------------------
(* Bounds of the model *)

\* longest meeting-id list a filter carries
MaxMeetingIds == 2
\* longest collection handed to the annotator directly
MaxEntities == 2
\* last reading of the clock
MaxNow == 2
\* goroutines that call Init
MaxCallers == 2
\* rows seed inserts (the loop bound of seed)
SeedRows == 2
\* most row cursors left open at a time
MaxOpenCursors == 2
\* most calls of the annotator on one collection
MaxAnnotations == 2

-----------------------------------------------------------------------------
(* Go values *)

Nil == <<>>
Ptr(v) == <<v>>
IsNil(p) == Len(p) = 0
Deref(p) == p[1]

\* the elements of a sequence
Range(s) == {s[i] : i \in 1..Len(s)}

\* len() of a slice held as an option: a nil slice has length 0
SliceLen(s) == IF IsNil(s) THEN 0 ELSE Len(Deref(s))
SliceElems(s) == IF IsNil(s) THEN <<>> ELSE Deref(s)

LowerLetters == <<"a", "b", "c", "d", "e", "f", "g", "h", "i", "j", "k", "l", "m", "n", "o", "p", "q", "r", "s", "t", "u", "v", "w", "x", "y", "z">>
UpperLetters == <<"A", "B", "C", "D", "E", "F", "G", "H", "I", "J", "K", "L", "M", "N", "O", "P", "Q", "R", "S", "T", "U", "V", "W", "X", "Y", "Z">>

\* strings.ToUpper, on the ASCII letters
ToUpperChar(c) ==
    IF \E i \in 1..Len(LowerLetters) : LowerLetters[i] = c
    THEN UpperLetters[CHOOSE i \in 1..Len(LowerLetters) : LowerLetters[i] = c]
    ELSE c
ToUpper(s) == [i \in 1..Len(s) |-> ToUpperChar(s[i])]

\* strings.Repeat
RECURSIVE Repeat(_, _)
Repeat(s, count) == IF count <= 0 THEN <<>> ELSE s \o Repeat(s, count - 1)

\* strings.Join
RECURSIVE Join(_, _)
Join(elems, sep) ==
    IF Len(elems) = 0 THEN <<>>
    ELSE IF Len(elems) = 1 THEN elems[1]
    ELSE elems[1] \o sep \o Join(Tail(elems), sep)

\* strconv.FormatBool
FormatBool(b) == IF b THEN <<"t", "r", "u", "e">> ELSE <<"f", "a", "l", "s", "e">>

-----------------------------------------------------------------------------
(* Query texts and table definitions *)

\* getRaceQueries()[racesList]
racesList ==
    <<"\n">>
    \o <<"\t", "\t", "\t", "S", "E", "L", "E", "C", "T", " ", "\n">>
    \o <<"\t", "\t", "\t", "\t", "i", "d", ",", " ", "\n">>
    \o <<"\t", "\t", "\t", "\t", "m", "e", "e", "t", "i", "n", "g", "_", "i", "d", ",", " ", "\n">>
    \o <<"\t", "\t", "\t", "\t", "n", "a", "m", "e", ",", " ", "\n">>
    \o <<"\t", "\t", "\t", "\t", "n", "u", "m", "b", "e", "r", ",", " ", "\n">>
    \o <<"\t", "\t", "\t", "\t", "v", "i", "s", "i", "b", "l", "e", ",", " ", "\n">>
    \o <<"\t", "\t", "\t", "\t", "a", "d", "v", "e", "r", "t", "i", "s", "e", "d", "_", "s", "t", "a", "r", "t", "_", "t", "i", "m", "e", " ", "\n">>
    \o <<"\t", "\t", "\t", "F", "R", "O", "M", " ", "r", "a", "c", "e", "s", "\n">>
    \o <<"\t", "\t">>

\* getEventsQueries()[eventsList]
eventsList ==
    <<"\n">>
    \o <<"\t", "\t", "\t", "S", "E", "L", "E", "C", "T", " ", "\n">>
    \o <<"\t", "\t", "\t", "\t", "i", "d", ",", " ", "\n">>
    \o <<"\t", "\t", "\t", "\t", "h", "o", "m", "e", "_", "t", "e", "a", "m", ",", " ", "\n">>
    \o <<"\t", "\t", "\t", "\t", "a", "w", "a", "y", "_", "t", "e", "a", "m", ",", " ", "\n">>
    \o <<"\t", "\t", "\t", "\t", "v", "e", "n", "u", "e", "_", "l", "o", "c", "a", "t", "i", "o", "n", ",", " ", "\n">>
    \o <<"\t", "\t", "\t", "\t", "v", "i", "s", "i", "b", "l", "e", ",", " ", "\n">>
    \o <<"\t", "\t", "\t", "\t", "a", "d", "v", "e", "r", "t", "i", "s", "e", "d", "_", "s", "t", "a", "r", "t", "_", "t", "i", "m", "e", " ", "\n">>
    \o <<"\t", "\t", "\t", "F", "R", "O", "M", " ", "e", "v", "e", "n", "t", "s", "\n">>
    \o <<"\t", "\t">>

ColId == <<"i", "d">>
ColMeetingId == <<"m", "e", "e", "t", "i", "n", "g", "_", "i", "d">>
ColName == <<"n", "a", "m", "e">>
ColNumber == <<"n", "u", "m", "b", "e", "r">>
ColVisible == <<"v", "i", "s", "i", "b", "l", "e">>
ColAdvertisedStartTime == <<"a", "d", "v", "e", "r", "t", "i", "s", "e", "d", "_", "s", "t", "a", "r", "t", "_", "t", "i", "m", "e">>
ColHomeTeam == <<"h", "o", "m", "e", "_", "t", "e", "a", "m">>
ColAwayTeam == <<"a", "w", "a", "y", "_", "t", "e", "a", "m">>
ColVenueLocation == <<"v", "e", "n", "u", "e", "_", "l", "o", "c", "a", "t", "i", "o", "n">>

\* CREATE TABLE IF NOT EXISTS races (...)
racesTableColumns ==
    <<ColId, ColMeetingId, ColName, ColNumber, ColVisible, ColAdvertisedStartTime>>
\* CREATE TABLE IF NOT EXISTS events (...)
eventsTableColumns ==
    <<ColId, ColHomeTeam, ColAwayTeam, ColVenueLocation, ColVisible, ColAdvertisedStartTime>>

baseQuery(r) == IF r = "races" THEN racesList ELSE eventsList
tableColumns(r) == IF r = "races" THEN racesTableColumns ELSE eventsTableColumns

-----------------------------------------------------------------------------
(* Generated getters of the request messages *)

GetVisible(f) == IF ~IsNil(f.Visible) THEN Deref(f.Visible) ELSE FALSE
GetId(f) == IF ~IsNil(f.Id) THEN Deref(f.Id) ELSE 0
GetHomeTeam(f) == IF ~IsNil(f.HomeTeam) THEN Deref(f.HomeTeam) ELSE <<>>
GetAwayTeam(f) == IF ~IsNil(f.AwayTeam) THEN Deref(f.AwayTeam) ELSE <<>>
GetVenueLocation(f) == IF ~IsNil(f.VenueLocation) THEN Deref(f.VenueLocation) ELSE <<>>
GetDirection(o) == IF ~IsNil(o.Direction) THEN Deref(o.Direction) ELSE <<>>
\* races: Field is *string; sports: Field is string
racesGetField(o) == IF ~IsNil(o.Field) THEN Deref(o.Field) ELSE <<>>
\* faulty variant: an empty field is replaced by the start-time column
sportsGetField_defaulted(o) == IF o.Field = <<>> THEN ColAdvertisedStartTime ELSE o.Field
sportsGetField(o) == o.Field

-----------------------------------------------------------------------------
(* applyFilter *)

\* faulty variant: one "?," too many
meetingIdsClause_extraPlaceholder(n) == <<"m", "e", "e", "t", "i", "n", "g", "_", "i", "d", " ", "I", "N", " ", "(">> \o Repeat(<<"?", ",">>, n) \o <<"?", ")">>

\* "meeting_id IN (" + strings.Repeat("?,", n-1) + "?)"
meetingIdsClause(n) == <<"m", "e", "e", "t", "i", "n", "g", "_", "i", "d", " ", "I", "N", " ", "(">> \o Repeat(<<"?", ",">>, n - 1) \o <<"?", ")">>

\* "visible = " + strconv.FormatBool(filter.GetVisible())
visibleClause(f) == <<"v", "i", "s", "i", "b", "l", "e", " ", "=", " ">> \o FormatBool(GetVisible(f))

idClause == <<"i", "d", " ", "=", " ", "?">>
homeTeamClause == <<"h", "o", "m", "e", "_", "t", "e", "a", "m", " ", "=", " ", "?">>
awayTeamClause == <<"a", "w", "a", "y", "_", "t", "e", "a", "m", " ", "=", " ", "?">>
venueLocationClause == <<"v", "e", "n", "u", "e", "_", "l", "o", "c", "a", "t", "i", "o", "n", " ", "=", " ", "?">>

\* faulty variant: " WHERE " is appended without looking at len(clauses)
appendWhere_always(q, clauses) == q \o <<" ", "W", "H", "E", "R", "E", " ">> \o Join(clauses, <<" ", "A", "N", "D", " ">>)

\* query += " WHERE " + strings.Join(clauses, " AND "), if there is a clause
appendWhere(q, clauses) ==
    IF Len(clauses) # 0 THEN q \o <<" ", "W", "H", "E", "R", "E", " ">> \o Join(clauses, <<" ", "A", "N", "D", " ">>) ELSE q

\* for _, meetingID := range filter.MeetingIds { args = append(args, meetingID) }
RECURSIVE appendMeetingIds(_, _)
appendMeetingIds(a, ids) ==
    IF Len(ids) = 0 THEN a ELSE appendMeetingIds(Append(a, Head(ids)), Tail(ids))

\* the clause and argument lists of the races filter after each `if`
racesMeetingIdsStep(f) ==
    IF SliceLen(f.MeetingIds) > 0
    THEN [clauses |-> <<meetingIdsClause(SliceLen(f.MeetingIds))>>,
          args    |-> appendMeetingIds(<<>>, SliceElems(f.MeetingIds))]
    ELSE [clauses |-> <<>>, args |-> <<>>]
\* faulty variant: visible is bound as a parameter instead of inlined
racesVisibleStep_bound(f, s) ==
    IF ~IsNil(f.Visible)
    THEN [clauses |-> Append(s.clauses, <<"v", "i", "s", "i", "b", "l", "e", " ", "=", " ", "?">>), args |-> Append(s.args, GetVisible(f))]
    ELSE s
racesVisibleStep(f, s) ==
    IF ~IsNil(f.Visible)
    THEN [clauses |-> Append(s.clauses, visibleClause(f)), args |-> s.args]
    ELSE s
\* faulty variant: the id is put in front of the arguments already collected
racesIdStep_argFirst(f, s) ==
    IF ~IsNil(f.Id)
    THEN [clauses |-> Append(s.clauses, idClause), args |-> <<GetId(f)>> \o s.args]
    ELSE s
racesIdStep(f, s) ==
    IF ~IsNil(f.Id)
    THEN [clauses |-> Append(s.clauses, idClause), args |-> Append(s.args, GetId(f))]
    ELSE s

racesRepo_applyFilter(q, flt) ==
    IF IsNil(flt) THEN [query |-> q, args |-> <<>>]
    ELSE LET f == Deref(flt)
             s == racesIdStep(f, racesVisibleStep(f, racesMeetingIdsStep(f)))
         IN  [query |-> appendWhere(q, s.clauses), args |-> s.args]

\* faulty variant: the home team is written into the SQL text instead of bound
sportsHomeTeamStep_inline(f) ==
    IF ~IsNil(f.HomeTeam)
    THEN [clauses |-> <<<<"h", "o", "m", "e", "_", "t", "e", "a", "m", " ", "=", " ", "'">> \o GetHomeTeam(f) \o <<"'">>>>, args |-> <<>>]
    ELSE [clauses |-> <<>>, args |-> <<>>]
sportsHomeTeamStep(f) ==
    IF ~IsNil(f.HomeTeam)
    THEN [clauses |-> <<homeTeamClause>>, args |-> <<GetHomeTeam(f)>>]
    ELSE [clauses |-> <<>>, args |-> <<>>]
sportsAwayTeamStep(f, s) ==
    IF ~IsNil(f.AwayTeam)
    THEN [clauses |-> Append(s.clauses, awayTeamClause), args |-> Append(s.args, GetAwayTeam(f))]
    ELSE s
sportsVenueLocationStep(f, s) ==
    IF ~IsNil(f.VenueLocation)
    THEN [clauses |-> Append(s.clauses, venueLocationClause),
          args    |-> Append(s.args, GetVenueLocation(f))]
    ELSE s
\* faulty variant: the visible clause is put in front of the clauses already collected
sportsVisibleStep_first(f, s) ==
    IF ~IsNil(f.Visible)
    THEN [clauses |-> <<visibleClause(f)>> \o s.clauses, args |-> s.args]
    ELSE s
sportsVisibleStep(f, s) ==
    IF ~IsNil(f.Visible)
    THEN [clauses |-> Append(s.clauses, visibleClause(f)), args |-> s.args]
    ELSE s

sportsRepo_applyFilter(q, flt) ==
    IF IsNil(flt) THEN [query |-> q, args |-> <<>>]
    ELSE LET f == Deref(flt)
             s == sportsVisibleStep(f,
                      sportsVenueLocationStep(f,
                          sportsAwayTeamStep(f, sportsHomeTeamStep(f))))
         IN  [query |-> appendWhere(q, s.clauses), args |-> s.args]

applyFilter(r, q, flt) ==
    IF r = "races" THEN racesRepo_applyFilter(q, flt) ELSE sportsRepo_applyFilter(q, flt)

-----------------------------------------------------------------------------
(* applyOrder *)

\* faulty variant: the direction is compared without strings.ToUpper
parseDirection_caseSensitive(dir) ==
    IF dir = <<"A", "S", "C">> THEN <<" ", "A", "S", "C">>
    ELSE IF dir = <<"D", "E", "S", "C">> THEN <<" ", "D", "E", "S", "C">>
    ELSE <<>>

\* the direction suffix: strings.ToUpper, then the switch on "ASC" / "DESC"
parseDirection(dir) ==
    LET d == ToUpper(dir)
    IN  IF d = <<"A", "S", "C">> THEN <<" ", "A", "S", "C">>
        ELSE IF d = <<"D", "E", "S", "C">> THEN <<" ", "D", "E", "S", "C">>
        ELSE <<>>

\* query += " ORDER BY advertised_start_time" + parseDirection(order.GetDirection())
racesDefaultOrder(q, o) ==
    IF IsNil(o.Field)
    THEN q \o <<" ", "O", "R", "D", "E", "R", " ", "B", "Y", " ", "a", "d", "v", "e", "r", "t", "i", "s", "e", "d", "_", "s", "t", "a", "r", "t", "_", "t", "i", "m", "e">> \o parseDirection(GetDirection(o))
    ELSE q

\* the rows.Next() / rows.Scan loop over the catalog cursor: the names scanned
\* into validColumns, and whether a Scan failed.  failAt = 0: no Scan fails.
RECURSIVE scanColumns(_, _, _, _)
scanColumns(rows, failAt, i, validColumns) ==
    IF i > Len(rows) THEN [err |-> FALSE, validColumns |-> validColumns]
    ELSE IF i = failAt THEN [err |-> TRUE, validColumns |-> validColumns]
    ELSE scanColumns(rows, failAt, i + 1, validColumns \cup {rows[i]})

\* faulty variant: the field is looked up in the columns of the table
\* definition, a catalog fixed when the program was built
columnIsValid_fixedCatalog(validColumns, field) ==
    field \in Range(racesTableColumns) \cup Range(eventsTableColumns)

\* faulty variant: the field is not looked up in the catalog
columnIsValid_unchecked(validColumns, field) == TRUE

\* _, ok := validColumns[field]
columnIsValid(validColumns, field) == field \in validColumns

\* if order.Direction != nil { query += parseDirection(order.GetDirection()) }
racesAppendDirection(q, o) ==
    IF ~IsNil(o.Direction) THEN q \o parseDirection(GetDirection(o)) ELSE q

\* if order.Direction != nil { switch strings.ToUpper(order.GetDirection()) { ... } }
sportsAppendDirection(q, o) ==
    IF ~IsNil(o.Direction)
    THEN LET direction == ToUpper(GetDirection(o))
         IN  IF direction = <<"A", "S", "C">> THEN q \o <<" ", "A", "S", "C">>
             ELSE IF direction = <<"D", "E", "S", "C">> THEN q \o <<" ", "D", "E", "S", "C">>
             ELSE q
    ELSE q

\* What one applyOrder call returns and does.  store is what the store answers
\* to the catalog query: [queryErr, rows, scanFailAt].
\*   query: the returned query;  queries: catalog queries issued;
\*   err: "none", "query" (db.Query failed) or "scan" (rows.Scan failed);
\*   validColumns: the catalog the call fetched (empty unless err = "none")
orderResult(q, n, e, vc) == [query |-> q, queries |-> n, err |-> e, validColumns |-> vc]

\* races applyOrder from the catalog query on; q1 is the query after the default-order step
racesOrderFromCatalog(q1, o, store) ==
    IF store.queryErr THEN orderResult(q1, 1, "query", {})
    ELSE LET sc == scanColumns(store.rows, store.scanFailAt, 1, {})
         IN  IF sc.err THEN orderResult(q1, 1, "scan", {})
             ELSE IF ~columnIsValid(sc.validColumns, racesGetField(o))
             THEN orderResult(q1, 1, "none", sc.validColumns)
             ELSE orderResult(
                      racesAppendDirection(q1 \o <<" ", "O", "R", "D", "E", "R", " ", "B", "Y", " ">> \o racesGetField(o), o),
                      1, "none", sc.validColumns)

\* faulty variant: the catalog is queried before the nil check of the order
racesRepo_applyOrder_catalogFirst(q, ord, store) ==
    IF IsNil(ord)
    THEN orderResult(q, 1, IF store.queryErr THEN "query" ELSE "none", {})
    ELSE racesOrderFromCatalog(racesDefaultOrder(q, Deref(ord)), Deref(ord), store)

racesRepo_applyOrder(q, ord, store) ==
    IF IsNil(ord) THEN orderResult(q, 0, "none", {})
    ELSE racesOrderFromCatalog(racesDefaultOrder(q, Deref(ord)), Deref(ord), store)

\* sports applyOrder from the catalog query on
sportsOrderFromCatalog(q, o, store) ==
    IF store.queryErr THEN orderResult(q, 1, "query", {})
    ELSE LET sc == scanColumns(store.rows, store.scanFailAt, 1, {})
         IN  IF sc.err THEN orderResult(q, 1, "scan", {})
             ELSE IF ~columnIsValid(sc.validColumns, sportsGetField(o))
             THEN orderResult(q, 1, "none", sc.validColumns)
             ELSE orderResult(
                      sportsAppendDirection(q \o <<" ", "O", "R", "D", "E", "R", " ", "B", "Y", " ">> \o sportsGetField(o), o),
                      1, "none", sc.validColumns)

sportsRepo_applyOrder(q, ord, store) ==
    IF IsNil(ord) THEN orderResult(q, 0, "none", {})
    ELSE sportsOrderFromCatalog(q, Deref(ord), store)

applyOrder(r, q, ord, store) ==
    IF r = "races" THEN racesRepo_applyOrder(q, ord, store)
    ELSE sportsRepo_applyOrder(q, ord, store)

-----------------------------------------------------------------------------
(* Entities and the annotator: addStatus, addDerivedFields *)

\* time.Time is an instant in nanoseconds since the Unix epoch;
\* timestamppb.Timestamp is {Seconds, Nanos} with 0 <= Nanos < 10^9
NanosPerSecond == 1000000000

\* timestamppb.New(t): Seconds: t.Unix(), Nanos: t.Nanosecond()
timestamppbNew(t) == [Seconds |-> t \div NanosPerSecond, Nanos |-> t % NanosPerSecond]

\* ts.AsTime(): time.Unix(Seconds, Nanos)
AsTime(ts) == ts.Seconds * NanosPerSecond + ts.Nanos

\* t.After(u)
After(t, u) == t > u

\* faulty variant: the comparison is the wrong way round
startStatus_reversed(ts, t) == IF After(t, AsTime(ts)) THEN "OPEN" ELSE "CLOSED"

\* faulty variant: a start instant equal to the clock reading counts as open
startStatus_notBefore(ts, t) == IF AsTime(ts) >= t THEN "OPEN" ELSE "CLOSED"

\* if AdvertisedStartTime.AsTime().After(time.Now()) { "OPEN" } else { "CLOSED" }
startStatus(ts, t) == IF After(AsTime(ts), t) THEN "OPEN" ELSE "CLOSED"

\* faulty variant: home team first
eventName_homeFirst(away, home) == home \o <<" ", "v", "s", " ">> \o away

\* fmt.Sprintf("%s vs %s", event.GetAwayTeam(), event.GetHomeTeam())
eventName(away, home) == away \o <<" ", "v", "s", " ">> \o home

\* one iteration of addStatus's loop; t is what time.Now() returns in it
addStatusStep(race, t) ==
    IF IsNil(race.AdvertisedStartTime) THEN race
    ELSE [race EXCEPT !.Status = startStatus(Deref(race.AdvertisedStartTime), t)]

\* one iteration of addDerivedFields's loop
addDerivedFieldsStep(event, t) ==
    LET named == [event EXCEPT !.Name = eventName(event.AwayTeam, event.HomeTeam)]
    IN  IF ~IsNil(event.AdvertisedStartTime)
        THEN [named EXCEPT !.Status = startStatus(Deref(event.AdvertisedStartTime), t)]
        ELSE named

annotateStep(r, e, t) == IF r = "races" THEN addStatusStep(e, t) ELSE addDerivedFieldsStep(e, t)

\* faulty variant: a nil collection comes back as an empty one
annotatorResult_neverNil(c) == IF IsNil(c) THEN Ptr(<<>>) ELSE c

\* return races / return events: the slice the annotator was given
annotatorResult(c) == c

-----------------------------------------------------------------------------

(* The main query: what the store answers, scanRaces / scanEvents *)

\* texts of a statement as the store reads them
hasText(s, sub) == \E e \in Len(sub)..Len(s) : SubSeq(s, e - Len(sub) + 1, e) = sub
\* position right after the first occurrence of sub in s
firstEnd(s, sub) ==
    CHOOSE e \in Len(sub)..Len(s) :
        /\ SubSeq(s, e - Len(sub) + 1, e) = sub
        /\ \A x \in Len(sub)..(e - 1) : SubSeq(s, x - Len(sub) + 1, x) # sub
before(s, sub) == IF hasText(s, sub) THEN SubSeq(s, 1, firstEnd(s, sub) - Len(sub)) ELSE s
after(s, sub) == IF hasText(s, sub) THEN SubSeq(s, firstEnd(s, sub) + 1, Len(s)) ELSE <<>>

RECURSIVE splitOn(_, _)
splitOn(s, sep) ==
    IF hasText(s, sep) THEN <<before(s, sep)>> \o splitOn(after(s, sep), sep) ELSE <<s>>

\* the conditions of a statement's WHERE clause
whereConditions(stmt, base) ==
    LET rest == before(SubSeq(stmt, Len(base) + 1, Len(stmt)), <<" ", "O", "R", "D", "E", "R", " ", "B", "Y", " ">>)
    IN  IF rest = <<>> THEN <<>> ELSE splitOn(after(rest, <<" ", "W", "H", "E", "R", "E", " ">>), <<" ", "A", "N", "D", " ">>)

\* whether a row satisfies the conditions "col = ?", "col = true", "col = false"
\* and "col IN (?,...)", the placeholders taking the arguments in order
RECURSIVE rowMatches(_, _, _)
rowMatches(row, conds, a) ==
    IF conds = <<>> THEN TRUE
    ELSE LET col == before(conds[1], <<" ">>)
             cmp == SubSeq(conds[1], Len(col) + 1, Len(conds[1]))
             n == Cardinality({i \in 1..Len(cmp) : cmp[i] = "?"})
             holds == IF cmp = <<" ", "=", " ", "t", "r", "u", "e">> THEN row[col] = 1
                      ELSE IF cmp = <<" ", "=", " ", "f", "a", "l", "s", "e">> THEN row[col] = 0
                      ELSE \E i \in 1..n : row[col] = a[i]
         IN  holds /\ rowMatches(row, Tail(conds), SubSeq(a, n + 1, Len(a)))

\* whether the store accepts the statement while the table has columns cols:
\* it selects from an existing table that has every selected column, and its
\* ORDER BY clause, if any, is one existing column with an optional direction
statementValid(stmt, base, selected, cols) ==
    /\ Len(cols) > 0
    /\ SubSeq(stmt, 1, Len(base)) = base
    /\ \A i \in 1..Len(selected) : \E j \in 1..Len(cols) : cols[j] = selected[i]
    /\ hasText(stmt, <<" ", "O", "R", "D", "E", "R", " ", "B", "Y", " ">>) =>
           \E j \in 1..Len(cols), d \in {<<>>, <<" ", "A", "S", "C">>, <<" ", "D", "E", "S", "C">>} :
               /\ cols[j] # <<>>
               /\ after(stmt, <<" ", "O", "R", "D", "E", "R", " ", "B", "Y", " ">>) = cols[j] \o d

\* the rows of the table the statement selects, in rowid order
selectRows(stmt, a, base, tbl) ==
    SelectSeq(tbl, LAMBDA row : rowMatches(row, whereConditions(stmt, base), a))

\* what the store can answer to db.Query(stmt, a...): an error, always so when
\* it does not accept the statement, or a cursor.  The cursor yields the
\* selected rows, of which the Scan of row scanFailAt fails (0: none does), or
\* it breaks while the statement is stepped: rows.Next() then returns false
\* after the rows it yielded so far, as it does at the end of the rows, and
\* the error stays in rows.Err() (iterErr)
MainAnswers(r, stmt, a, cols, tbl) ==
    {[queryErr |-> TRUE, rows |-> <<>>, scanFailAt |-> 0, iterErr |-> FALSE]}
    \cup IF statementValid(stmt, baseQuery(r), tableColumns(r), cols)
         THEN LET rows == selectRows(stmt, a, baseQuery(r), tbl)
              IN  {[queryErr |-> FALSE, rows |-> rows, scanFailAt |-> k, iterErr |-> FALSE] :
                      k \in 0..Len(rows)}
                  \cup {[queryErr |-> FALSE, rows |-> SubSeq(rows, 1, k), scanFailAt |-> 0,
                          iterErr |-> TRUE] : k \in 0..Len(rows)}
         ELSE {}

\* faulty variant: the zero start instant is left absent
scanRace_zeroStartAbsent(row) ==
    [Id |-> row[ColId], MeetingId |-> row[ColMeetingId], Name |-> row[ColName],
     Number |-> row[ColNumber], Visible |-> row[ColVisible] = 1,
     AdvertisedStartTime |-> IF row[ColAdvertisedStartTime] = 0 THEN Nil
                             ELSE Ptr(timestamppbNew(row[ColAdvertisedStartTime] * NanosPerSecond)),
     Status |-> ""]

\* rows.Scan(&race.Id, ...), timestamppb.New(advertisedStart): the entity of a row
scanRace(row) ==
    [Id |-> row[ColId], MeetingId |-> row[ColMeetingId], Name |-> row[ColName],
     Number |-> row[ColNumber], Visible |-> row[ColVisible] = 1,
     AdvertisedStartTime |-> Ptr(timestamppbNew(row[ColAdvertisedStartTime] * NanosPerSecond)),
     Status |-> ""]
scanEvent(row) ==
    [Id |-> row[ColId], Name |-> <<>>, HomeTeam |-> row[ColHomeTeam],
     AwayTeam |-> row[ColAwayTeam], VenueLocation |-> row[ColVenueLocation],
     Visible |-> row[ColVisible] = 1,
     AdvertisedStartTime |-> Ptr(timestamppbNew(row[ColAdvertisedStartTime] * NanosPerSecond)),
     Status |-> ""]

\* the rows.Next() loop of scanRaces / scanEvents up to the annotator call:
\* the scanned slice (nil when the cursor yields no row), or the Scan error.
\* rows.Scan never returns sql.ErrNoRows (Row.Scan does), so the branch that
\* returns nil, nil on it is not taken; rows.Err() is not read.
RECURSIVE scanLoop(_, _, _, _, _)
scanLoop(r, rows, failAt, i, scanned) ==
    IF i > Len(rows) THEN [err |-> "none", entities |-> scanned]
    ELSE IF i = failAt THEN [err |-> "scan", entities |-> Nil]
    ELSE scanLoop(r, rows, failAt, i + 1,
                  Ptr(Append(SliceElems(scanned),
                             IF r = "races" THEN scanRace(rows[i]) ELSE scanEvent(rows[i]))))

\* faulty variant: a cursor without rows is reported as an error
mainQueryOutcome_noRowsIsError(r, answer) ==
    IF answer.queryErr \/ Len(answer.rows) = 0
    THEN [err |-> "query", entities |-> Nil, annotate |-> FALSE]
    ELSE LET sc == scanLoop(r, answer.rows, answer.scanFailAt, 1, Nil)
         IN  [err |-> sc.err, entities |-> sc.entities, annotate |-> sc.err = "none"]

\* faulty variant: the annotator is called although a row could not be scanned
mainQueryOutcome_annotatesAfterScanError(r, answer) ==
    IF answer.queryErr
    THEN [err |-> "query", entities |-> Nil, annotate |-> FALSE]
    ELSE LET sc == scanLoop(r, answer.rows, answer.scanFailAt, 1, Nil)
         IN  [err |-> sc.err, entities |-> sc.entities, annotate |-> TRUE]

\* rows, err := db.Query(...); if err != nil { return nil, err }; then the scan
\* loop: what is returned at once (err), or the slice handed to the annotator
mainQueryOutcome(r, answer) ==
    IF answer.queryErr
    THEN [err |-> "query", entities |-> Nil, annotate |-> FALSE]
    ELSE LET sc == scanLoop(r, answer.rows, answer.scanFailAt, 1, Nil)
         IN  [err |-> sc.err, entities |-> sc.entities, annotate |-> sc.err = "none"]

\* GetByID: if len(res) == 0 { return nil, ErrCantFindID }; return res[0], nil
getByIDResult(res) ==
    IF SliceLen(res) = 0 THEN [race |-> Nil, err |-> "ErrCantFindID"]
    ELSE [race |-> Ptr(SliceElems(res)[1]), err |-> "none"]

-----------------------------------------------------------------------------
(* Requests a caller can make, and what the store can answer *)

Repos == {"races", "sports"}

\* values a caller supplies
MeetingIdValues == {1, 2}
IdValues == {0 - 1, 0}
StringValues == {<<>>, <<"?", "'">>}
FieldValues == {<<>>, ColAdvertisedStartTime, <<"u", "n", "k", "n", "o", "w", "n">>}
DirectionValues == {<<>>, <<"a", "s", "c">>, <<"D", "E", "S", "C">>, <<"a", "s", "c", "x">>}

Opt(S) == {Nil} \cup {Ptr(v) : v \in S}
SeqsUpTo(S, n) == UNION {[1..k -> S] : k \in 0..n}

RacesFilters ==
    Opt([MeetingIds : Opt(SeqsUpTo(MeetingIdValues, MaxMeetingIds)),
         Visible    : Opt(BOOLEAN),
         Id         : Opt(IdValues)])
SportsFilters ==
    Opt([HomeTeam      : Opt(StringValues),
         AwayTeam      : Opt(StringValues),
         VenueLocation : Opt(StringValues),
         Visible       : Opt(BOOLEAN)])
RacesOrders == Opt([Field : Opt(FieldValues), Direction : Opt(DirectionValues)])
SportsOrders == Opt([Field : FieldValues, Direction : Opt(DirectionValues)])

Filters(r) == IF r = "races" THEN RacesFilters ELSE SportsFilters
Orders(r) == IF r = "races" THEN RacesOrders ELSE SportsOrders

\* start instants of entities, around the clock readings 0..MaxNow
StartInstants == {0 - 1, 1}
\* an entity as scanRaces / scanEvents or a test literal builds it has the zero
\* status; one that was annotated before has a start instant and a status
PriorStatus(start) == IF IsNil(start) THEN {""} ELSE {"", "OPEN"}
TeamValues == {<<>>, <<"a", "w", "a", "y">>}
PriorNames == {<<>>, <<"o", "l", "d">>}

RaceValues ==
    {[Id |-> 0, MeetingId |-> 0, Name |-> <<>>, Number |-> 0, Visible |-> FALSE,
      AdvertisedStartTime |-> s, Status |-> st] :
        <<s, st>> \in {x \in Opt({timestamppbNew(i) : i \in StartInstants}) \X {"", "OPEN"} :
                          x[2] \in PriorStatus(x[1])}}
EventValues ==
    {[Id |-> 0, Name |-> n, HomeTeam |-> <<"h", "o", "m", "e">>, AwayTeam |-> a, VenueLocation |-> <<>>,
      Visible |-> FALSE, AdvertisedStartTime |-> x[1], Status |-> x[2]] :
        n \in PriorNames, a \in TeamValues,
        x \in {y \in Opt({timestamppbNew(i) : i \in StartInstants}) \X {"", "OPEN"} :
                   y[2] \in PriorStatus(y[1])}}

\* the entities of a collection are distinct objects: the i-th one carries id i
Numbered(s) == [i \in 1..Len(s) |-> [s[i] EXCEPT !.Id = i]]

\* collections the annotator can be called with: nil, empty, or up to MaxEntities entities
AnnotatorInputs(r) ==
    {Nil} \cup {Ptr(Numbered(s)) :
                   s \in SeqsUpTo(IF r = "races" THEN RaceValues ELSE EventValues, MaxEntities)}

\* goroutines calling Init
Callers == 1..MaxCallers

\* requests of the row-reading specification: no filter, a filter some rows
\* pass, a filter no row passes; no order, the default order, an unknown field,
\* a column with a direction
ReadFilters(r) ==
    IF r = "races"
    THEN {Nil, Ptr([MeetingIds |-> Ptr(<<1>>), Visible |-> Ptr(TRUE), Id |-> Nil]),
          Ptr([MeetingIds |-> Ptr(<<2>>), Visible |-> Nil, Id |-> Nil])}
    ELSE {Nil, Ptr([HomeTeam |-> Ptr(<<"h", "o", "m", "e">>), AwayTeam |-> Nil, VenueLocation |-> Nil,
                    Visible |-> Ptr(FALSE)]),
          Ptr([HomeTeam |-> Nil, AwayTeam |-> Ptr(<<"?", "'">>), VenueLocation |-> Nil,
               Visible |-> Nil])}
\* a column that is not part of the table definition and that requests order by
ColRank == <<"r", "a", "n", "k">>
\* columns another actor may add to the table while requests are served
ReadExtraColumns == {ColRank}
ReadOrders(r) ==
    IF r = "races"
    THEN {Nil, Ptr([Field |-> Nil, Direction |-> Nil]),
          Ptr([Field |-> Ptr(<<"u", "n", "k", "n", "o", "w", "n">>), Direction |-> Ptr(<<"a", "s", "c", "x">>)]),
          Ptr([Field |-> Ptr(ColAdvertisedStartTime), Direction |-> Ptr(<<"D", "E", "S", "C">>)]),
          Ptr([Field |-> Ptr(ColId), Direction |-> Ptr(<<"a", "s", "c", "x">>)]),
          Ptr([Field |-> Ptr(ColRank), Direction |-> Nil])}
    ELSE {Nil, Ptr([Field |-> <<"u", "n", "k", "n", "o", "w", "n">>, Direction |-> Ptr(<<"a", "s", "c", "x">>)]),
          Ptr([Field |-> ColAdvertisedStartTime, Direction |-> Ptr(<<"D", "E", "S", "C">>)]),
          Ptr([Field |-> ColId, Direction |-> Ptr(<<"a", "s", "c", "x">>)]),
          Ptr([Field |-> ColRank, Direction |-> Nil])}
\* ids GetByID is called with: negative, zero, and present ones
ReadIds == IdValues \cup 1..SeedRows
\* what seed draws for a row: visible is 0 or 1; the start instant is written as
\* an RFC3339 text, i.e. whole seconds since the epoch
SeedVisible == {0, 1}
SeedStartSeconds == {0, 1}

\* the row seed inserts with id i; a row maps column names to values
seedRow(r, i, visible, start) ==
    IF r = "races"
    THEN (ColId :> i) @@ (ColMeetingId :> 1) @@ (ColName :> <<"n", "a", "m", "e">>) @@ (ColNumber :> 1)
         @@ (ColVisible :> visible) @@ (ColAdvertisedStartTime :> start)
    ELSE (ColId :> i) @@ (ColHomeTeam :> <<"h", "o", "m", "e">>) @@ (ColAwayTeam :> <<"a", "w", "a", "y">>)
         @@ (ColVenueLocation :> <<"v", "e", "n", "u", "e">>)
         @@ (ColVisible :> visible) @@ (ColAdvertisedStartTime :> start)

\* INSERT OR IGNORE: a row whose id is taken is not inserted
insertOrIgnore(tbl, row) ==
    IF \E k \in 1..Len(tbl) : tbl[k][ColId] = row[ColId] THEN tbl ELSE Append(tbl, row)

\* tables seed leaves behind when all its statements succeed; of the values it
\* draws, the start instants vary here, and every second row is visible
SeededTables(r) ==
    {[i \in 1..SeedRows |-> seedRow(r, i, i % 2, s[i])] : s \in [1..SeedRows -> SeedStartSeconds]}

\* columns another actor may add to the table, and columns it may drop
ExtraColumns == {<<>>}
DroppableColumns == {ColAdvertisedStartTime} \cup ExtraColumns

Remove(s, c) == SelectSeq(s, LAMBDA x : x # c)

\* answers of the store to the catalog query while the table has columns cols
StoreAnswers(cols) ==
    [queryErr : BOOLEAN, rows : {cols}, scanFailAt : 0..Len(cols)]

\* the main statement of a request has not been answered
NoAnswer == [queryErr |-> FALSE, rows |-> <<>>, scanFailAt |-> 0, iterErr |-> FALSE]

\* the applyOrder call of a request, before it ran or when it issued no catalog query
NoCatalog == [queries |-> 0, err |-> "none", validColumns |-> {}, rows |-> <<>>]

-----------------------------------------------------------------------------
(* The state machine *)

Init ==
    /\ repo \in Repos
    /\ columns = <<>>
    /\ once = FALSE
    /\ pc = "idle"
    /\ filter = Nil
    /\ order = Nil
    /\ query = <<>>
    /\ args = <<>>
    /\ filterQuery = <<>>
    /\ catalog = NoCatalog
    /\ listErr = "none"
    /\ op = "none"
    /\ executed = <<>>
    /\ mainAnswer = NoAnswer
    /\ table = <<>>
    /\ now = 0
    /\ entities = Nil
    /\ idx = 0
    /\ annotations = 0
    /\ given = Nil
    /\ evaluatedAt = <<>>
    /\ returned = Nil
    /\ initCalls = [c \in Callers |-> [pc |-> "idle", err |-> "none"]]
    /\ onceM = 0
    /\ seedRuns = 0
    /\ seedEnds = 0
    /\ seedStep = 0
    /\ seedErr = "none"
    /\ openCursors = 0

\* Init(): the sync.Once gate around seed; seed creates the table if it does
\* not exist yet, unless its statement fails
RepoInit ==
    /\ ~once
    /\ once' = TRUE
    /\ \E seedOk \in BOOLEAN :
           columns' = IF seedOk /\ Len(columns) = 0 THEN tableColumns(repo) ELSE columns
    /\ UNCHANGED <<repo, openCursors, pc, filter, order, query, args, filterQuery, catalog, listErr, op,
                   executed, mainAnswer, rowVars, initVars>>

\* another actor adds a column of E to the table
AddColumnFrom(E) ==
    /\ Len(columns) > 0
    /\ \E c \in E \ Range(columns) : columns' = Append(columns, c)
    /\ UNCHANGED <<repo, openCursors, once, pc, filter, order, query, args, filterQuery, catalog, listErr,
                   op, executed, mainAnswer, rowVars, initVars>>

AddColumn == AddColumnFrom(ExtraColumns)

\* another actor drops a column of D from the table
DropColumnFrom(D) ==
    /\ \E c \in D \cap Range(columns) : columns' = Remove(columns, c)
    /\ UNCHANGED <<repo, openCursors, once, pc, filter, order, query, args, filterQuery, catalog, listErr,
                   op, executed, mainAnswer, rowVars, initVars>>

DropColumn == DropColumnFrom(DroppableColumns)

\* List, up to and including applyFilter, called with a filter of FS and an order of OS
ListFilterFrom(FS, OS) ==
    /\ pc = "idle"
    /\ \E f \in FS, o \in OS :
           LET res == applyFilter(repo, baseQuery(repo), f)
           IN  /\ filter' = f
               /\ order' = o
               /\ query' = res.query
               /\ args' = res.args
               /\ filterQuery' = res.query
    /\ pc' = "order"
    /\ op' = "List"
    /\ UNCHANGED <<repo, openCursors, columns, once, catalog, listErr, executed, mainAnswer, rowVars, initVars>>

ListFilter == ListFilterFrom(Filters(repo), Orders(repo))

\* A cursor is closed by rows.Next() when it returns false, at the end of the
\* rows or on an error; no function calls rows.Close().  The return taken when
\* rows.Scan fails leaves the loop with the cursor open.
cursorLeftOpen(err) == err = "scan"

\* List: query = r.applyOrder(query, order), with the catalog query it issues;
\* account: whether the cursors left open are counted
ListOrderAs(account) ==
    /\ pc = "order"
    /\ \E store \in StoreAnswers(columns) :
           LET res == applyOrder(repo, query, order, store)
           IN  /\ (account /\ cursorLeftOpen(res.err)) => openCursors < MaxOpenCursors
               /\ openCursors' =
                      openCursors + IF account /\ cursorLeftOpen(res.err) THEN 1 ELSE 0
               /\ query' = res.query
               /\ catalog' = [queries |-> res.queries, err |-> res.err,
                              validColumns |-> res.validColumns,
                              rows |-> IF res.queries = 1 /\ ~store.queryErr
                                       THEN store.rows ELSE <<>>]
    /\ pc' = "query"
    /\ UNCHANGED <<repo, columns, once, filter, order, args, filterQuery, listErr, op,
                   executed, mainAnswer, rowVars, initVars>>

ListOrder == ListOrderAs(FALSE)

\* faulty variant: the statement is sent without the arguments
dbQuery_noArgs(q, a) == [query |-> q, args |-> <<>>]

\* r.db.Query(query, args...): the statement and the arguments handed to the store
dbQuery(q, a) == [query |-> q, args |-> a]

\* List: rows, err := r.db.Query(query, args...); in this specification the
\* store's answer is reduced to whether the statement failed
ListQuery ==
    /\ pc = "query"
    /\ executed' = Append(executed, dbQuery(query, args))
    /\ \E e \in {"none", "query"} :
           /\ listErr' = e
           /\ mainAnswer' = [queryErr |-> e = "query", rows |-> <<>>, scanFailAt |-> 0,
                            iterErr |-> FALSE]
    /\ pc' = "done"
    /\ UNCHANGED <<repo, openCursors, columns, once, filter, order, query, args, filterQuery, catalog, op,
                   rowVars, initVars>>

\* List returns: its arguments and locals are gone
ListReturn ==
    /\ pc = "done"
    /\ pc' = "idle"
    /\ filter' = Nil
    /\ order' = Nil
    /\ query' = <<>>
    /\ args' = <<>>
    /\ filterQuery' = <<>>
    /\ catalog' = NoCatalog
    /\ listErr' = "none"
    /\ op' = "none"
    /\ executed' = <<>>
    /\ mainAnswer' = NoAnswer
    /\ entities' = Nil
    /\ idx' = 0
    /\ annotations' = 0
    /\ given' = Nil
    /\ evaluatedAt' = <<>>
    /\ returned' = Nil
    /\ UNCHANGED <<repo, openCursors, columns, once, table, now, initVars>>

\* addStatus(races) / addDerivedFields(events) called on a collection of the caller
AnnotateCall ==
    /\ pc = "idle"
    /\ \E c \in AnnotatorInputs(repo) :
           /\ entities' = c
           /\ given' = c
    /\ idx' = 1
    /\ annotations' = annotations + 1
    /\ op' = "annotate"
    /\ pc' = "annotate"
    /\ UNCHANGED <<repo, openCursors, columns, once, filter, order, query, args, filterQuery, catalog,
                   listErr, executed, mainAnswer, table, now, evaluatedAt, returned, initVars>>

\* one iteration of the annotator's loop, with its reading of the clock
AnnotateStep ==
    /\ pc = "annotate"
    /\ idx <= SliceLen(entities)
    /\ LET e == SliceElems(entities)[idx]
       IN  /\ entities' = Ptr([SliceElems(entities) EXCEPT ![idx] = annotateStep(repo, e, now)])
           /\ evaluatedAt' =
                  LET at == IF IsNil(e.AdvertisedStartTime) THEN Nil ELSE Ptr(now)
                  IN  IF idx <= Len(evaluatedAt) THEN [evaluatedAt EXCEPT ![idx] = at]
                      ELSE Append(evaluatedAt, at)
    /\ idx' = idx + 1
    /\ UNCHANGED <<repo, openCursors, columns, once, pc, filter, order, query, args, filterQuery, catalog,
                   listErr, op, executed, mainAnswer, table, now, annotations, given, returned, initVars>>

\* the annotator's loop is over: it returns the collection to its caller
AnnotateReturn ==
    /\ pc = "annotate"
    /\ op = "annotate"
    /\ idx > SliceLen(entities)
    /\ returned' = annotatorResult(entities)
    /\ pc' = "done"
    /\ UNCHANGED <<repo, openCursors, columns, once, filter, order, query, args, filterQuery, catalog,
                   listErr, op, executed, mainAnswer, table, now, entities, idx, annotations, given,
                   evaluatedAt, initVars>>

\* the caller hands the collection it got back to the annotator once more
AnnotateAgain ==
    /\ pc = "done"
    /\ op = "annotate"
    /\ annotations < MaxAnnotations
    /\ entities' = returned
    /\ given' = returned
    /\ returned' = Nil
    /\ idx' = 1
    /\ annotations' = annotations + 1
    /\ pc' = "annotate"
    /\ UNCHANGED <<repo, openCursors, columns, once, filter, order, query, args, filterQuery, catalog,
                   listErr, op, executed, mainAnswer, table, now, evaluatedAt, initVars>>

\* the clock advances
Tick ==
    /\ now < MaxNow
    /\ now' = now + 1
    /\ UNCHANGED <<repo, openCursors, columns, once, pc, filter, order, query, args, filterQuery, catalog,
                   listErr, op, executed, mainAnswer, table, entities, idx, annotations, given,
                   evaluatedAt, returned, initVars>>

Next ==
    \/ RepoInit
    \/ AddColumn
    \/ DropColumn
    \/ ListFilter
    \/ ListOrder
    \/ ListQuery
    \/ ListReturn

Spec == Init /\ [][Next]_vars

\* the repository after start-up: Init has returned, the table is seeded
InitRead ==
    /\ repo \in Repos
    /\ columns = tableColumns(repo)
    /\ once = TRUE
    /\ table \in SeededTables(repo)
    /\ pc = "idle"
    /\ filter = Nil
    /\ order = Nil
    /\ query = <<>>
    /\ args = <<>>
    /\ filterQuery = <<>>
    /\ catalog = NoCatalog
    /\ listErr = "none"
    /\ op = "none"
    /\ executed = <<>>
    /\ mainAnswer = NoAnswer
    /\ now = 0
    /\ entities = Nil
    /\ idx = 0
    /\ annotations = 0
    /\ given = Nil
    /\ evaluatedAt = <<>>
    /\ returned = Nil
    /\ initCalls = [c \in Callers |-> [pc |-> "returned", err |-> "none"]]
    /\ onceM = 0
    /\ seedRuns = 1
    /\ seedEnds = 1
    /\ seedStep = SeedRows + 1
    /\ seedErr = "none"
    /\ openCursors = 0

ReadListFilter == ListFilterFrom(ReadFilters(repo), ReadOrders(repo))

\* another actor alters the table while requests are served
ReadAddColumn == AddColumnFrom(ReadExtraColumns)
ReadDropColumn == DropColumnFrom({ColAdvertisedStartTime} \cup ReadExtraColumns)

\* GetByID, up to and including applyFilter
GetByIDFilter ==
    /\ pc = "idle"
    /\ repo = "races"
    /\ \E id \in ReadIds :
           LET f == Ptr([MeetingIds |-> Nil, Visible |-> Nil, Id |-> Ptr(id)])
               res == applyFilter(repo, baseQuery(repo), f)
           IN  /\ filter' = f
               /\ query' = res.query
               /\ args' = res.args
               /\ filterQuery' = res.query
    /\ pc' = "query"
    /\ op' = "GetByID"
    /\ UNCHANGED <<repo, openCursors, columns, once, order, catalog, listErr, executed, mainAnswer, rowVars,
                   initVars>>

\* List / GetByID: rows, err := r.db.Query(query, args...) and scanRaces /
\* scanEvents up to the call of the annotator; account: whether the cursors
\* left open are counted
MainQueryAs(account) ==
    /\ pc = "query"
    /\ executed' = Append(executed, dbQuery(query, args))
    /\ \E answer \in MainAnswers(repo, query, args, columns, table) :
           LET out == mainQueryOutcome(repo, answer)
           IN  /\ (account /\ cursorLeftOpen(out.err)) => openCursors < MaxOpenCursors
               /\ openCursors' =
                      openCursors + IF account /\ cursorLeftOpen(out.err) THEN 1 ELSE 0
               /\ mainAnswer' = answer
               /\ listErr' = out.err
               /\ IF out.annotate
                  THEN /\ entities' = out.entities
                       /\ given' = out.entities
                       /\ idx' = 1
                       /\ annotations' = annotations + 1
                       /\ pc' = "annotate"
                  ELSE /\ UNCHANGED <<entities, given, idx, annotations>>
                       /\ pc' = "done"
    /\ UNCHANGED <<repo, columns, once, filter, order, query, args, filterQuery, catalog, op,
                   table, now, evaluatedAt, returned, initVars>>

MainQuery == MainQueryAs(FALSE)

\* the annotator has returned into scanRaces / scanEvents: List returns the
\* slice, GetByID its first element or ErrCantFindID
ReadReturn ==
    /\ pc = "annotate"
    /\ op \in {"List", "GetByID"}
    /\ idx > SliceLen(entities)
    /\ IF op = "List"
       THEN /\ returned' = annotatorResult(entities)
            /\ listErr' = "none"
       ELSE LET res == getByIDResult(annotatorResult(entities))
            IN  /\ returned' = res.race
                /\ listErr' = res.err
    /\ pc' = "done"
    /\ UNCHANGED <<repo, openCursors, columns, once, filter, order, query, args, filterQuery, catalog, op,
                   executed, mainAnswer, table, now, entities, idx, annotations, given,
                   evaluatedAt, initVars>>

\* List and GetByID against the seeded table, while the clock runs and another
\* actor alters the table's columns
NextRead ==
    \/ ReadListFilter
    \/ ListOrder
    \/ GetByIDFilter
    \/ MainQuery
    \/ AnnotateStep
    \/ ReadReturn
    \/ ListReturn
    \/ Tick
    \/ ReadAddColumn
    \/ ReadDropColumn

SpecRead == InitRead /\ [][NextRead]_vars

\* List and GetByID against the seeded table, with an account of the row
\* cursors the requests leave open
CursorListOrder == ListOrderAs(TRUE)
CursorMainQuery == MainQueryAs(TRUE)

NextCursors ==
    \/ ReadListFilter
    \/ CursorListOrder
    \/ GetByIDFilter
    \/ CursorMainQuery
    \/ AnnotateStep
    \/ ReadReturn
    \/ ListReturn

SpecCursors == InitRead /\ [][NextCursors]_vars

\* faulty variant: the gate is not looked at again once the mutex is held
onceDone_unchecked(done) == FALSE

\* sync.Once: o.done.Load() != 0, read by Do and read again by doSlow under the mutex
onceDone(done) == done

\* Init is called: var err error
InitCall(c) ==
    /\ initCalls[c].pc \in {"idle", "returned"}
    /\ initCalls' = [initCalls EXCEPT ![c] = [pc |-> "do", err |-> "none"]]
    /\ UNCHANGED <<repo, openCursors, columns, once, pc, filter, order, query, args, filterQuery, catalog,
                   listErr, op, executed, mainAnswer, rowVars, onceM, seedRuns, seedEnds, seedStep, seedErr>>

\* r.init.Do: the fast path returns when the gate is done, else the caller goes for the mutex
OnceDo(c) ==
    /\ initCalls[c].pc = "do"
    /\ initCalls' = [initCalls EXCEPT ![c].pc = IF onceDone(once) THEN "return" ELSE "lock"]
    /\ UNCHANGED <<repo, openCursors, columns, once, pc, filter, order, query, args, filterQuery, catalog,
                   listErr, op, executed, mainAnswer, rowVars, onceM, seedRuns, seedEnds, seedStep, seedErr>>

\* doSlow: o.m.Lock(), then the gate is read again: seed starts if it is not done,
\* else the mutex is released
OnceLock(c) ==
    /\ initCalls[c].pc = "lock"
    /\ onceM = 0
    /\ IF onceDone(once)
       THEN /\ initCalls' = [initCalls EXCEPT ![c].pc = "return"]
            /\ UNCHANGED <<onceM, seedRuns, seedStep, seedErr>>
       ELSE /\ initCalls' = [initCalls EXCEPT ![c].pc = "seed"]
            /\ onceM' = c
            /\ seedRuns' = seedRuns + 1
            /\ seedStep' = 0
            /\ seedErr' = "none"
    /\ UNCHANGED <<repo, openCursors, columns, once, pc, filter, order, query, args, filterQuery, catalog,
                   listErr, op, executed, mainAnswer, rowVars, seedEnds>>

\* seed: CREATE TABLE IF NOT EXISTS; err is what Prepare or Exec returned
SeedCreate(c) ==
    /\ initCalls[c].pc = "seed"
    /\ seedStep = 0
    /\ \E ok \in BOOLEAN :
           /\ columns' = IF ok /\ Len(columns) = 0 THEN tableColumns(repo) ELSE columns
           /\ seedErr' = IF ok THEN "none" ELSE "exec"
    /\ seedStep' = 1
    /\ UNCHANGED <<repo, openCursors, once, pc, filter, order, query, args, filterQuery, catalog,
                   listErr, op, executed, mainAnswer, rowVars, initCalls, onceM, seedRuns, seedEnds>>

\* seed: one iteration of the insert loop; err is overwritten by its outcome.
\* The statement fails when the table does not exist, and may fail otherwise.
SeedInsert(c) ==
    /\ initCalls[c].pc = "seed"
    /\ seedStep \in 1..SeedRows
    /\ \E ok \in BOOLEAN, visible \in SeedVisible, start \in SeedStartSeconds :
           IF ok /\ Len(columns) > 0
           THEN /\ table' = insertOrIgnore(table, seedRow(repo, seedStep, visible, start))
                /\ seedErr' = "none"
           ELSE /\ table' = table
                /\ seedErr' = "exec"
    /\ seedStep' = seedStep + 1
    /\ UNCHANGED <<repo, openCursors, columns, once, pc, filter, order, query, args, filterQuery, catalog,
                   listErr, op, executed, mainAnswer, now, entities, idx, annotations, given, evaluatedAt,
                   returned, initCalls, onceM, seedRuns, seedEnds>>

\* seed returns err into Init's err; leaving doSlow, the gate is set done and
\* the mutex released
SeedReturn(c) ==
    /\ initCalls[c].pc = "seed"
    /\ seedStep > SeedRows
    /\ initCalls' = [initCalls EXCEPT ![c] = [pc |-> "return", err |-> seedErr]]
    /\ seedEnds' = seedEnds + 1
    /\ once' = TRUE
    /\ onceM' = 0
    /\ UNCHANGED <<repo, openCursors, columns, pc, filter, order, query, args, filterQuery, catalog,
                   listErr, op, executed, mainAnswer, rowVars, seedRuns, seedStep, seedErr>>

\* return err
InitReturn(c) ==
    /\ initCalls[c].pc = "return"
    /\ initCalls' = [initCalls EXCEPT ![c].pc = "returned"]
    /\ UNCHANGED <<repo, openCursors, columns, once, pc, filter, order, query, args, filterQuery, catalog,
                   listErr, op, executed, mainAnswer, rowVars, onceM, seedRuns, seedEnds, seedStep, seedErr>>

\* sequential and concurrent calls of Init on one repository
NextInit ==
    \E c \in Callers :
        \/ InitCall(c)
        \/ OnceDo(c)
        \/ OnceLock(c)
        \/ SeedCreate(c)
        \/ SeedInsert(c)
        \/ SeedReturn(c)
        \/ InitReturn(c)

SpecInit == Init /\ [][NextInit]_vars

\* direct calls of the annotator while the clock runs
NextAnnotate ==
    \/ AnnotateAgain
    \/ AnnotateCall
    \/ AnnotateStep
    \/ AnnotateReturn
    \/ Tick
    \/ ListReturn

SpecAnnotate == Init /\ [][NextAnnotate]_vars

TypeOK ==
    /\ repo \in Repos
    /\ pc \in {"idle", "order", "query", "annotate", "done"}
    /\ catalog.queries \in {0, 1}
    /\ openCursors \in 0..MaxOpenCursors

-----------------------------------------------------------------------------
(* Vocabulary of the properties *)

IsPrefix(p, s) == Len(p) <= Len(s) /\ SubSeq(s, 1, Len(p)) = p
Drop(s, n) == SubSeq(s, n + 1, Len(s))
\* sub occurs in s and its last character is at position e
EndsAt(s, e, sub) ==
    /\ e <= Len(s)
    /\ e - Len(sub) >= 0
    /\ SubSeq(s, e - Len(sub) + 1, e) = sub
Contains(s, sub) == \E e \in 1..Len(s) : EndsAt(s, e, sub)
Positions(s, c) == {p \in 1..Len(s) : s[p] = c}
Count(s, c) == Cardinality(Positions(s, c))
\* position of the i-th occurrence of c in s, reading left to right
NthPosition(s, c, i) ==
    CHOOSE p \in Positions(s, c) : Cardinality({x \in Positions(s, c) : x < p}) = i - 1

\* applyFilter has just returned (query, args hold its result) /
\* applyOrder has just returned (query holds its result, catalog what it did)
Filtered == pc = "order"
Ordered == pc = "query"

\* the text applyFilter appended to the base query, and the text applyOrder appended
WhereClause == Drop(filterQuery, Len(baseQuery(repo)))
OrderClause == Drop(query, Len(filterQuery))

\* number of fields a filter sets
SetFields(r, flt) ==
    IF IsNil(flt) THEN 0
    ELSE LET f == Deref(flt)
         IN  IF r = "races"
             THEN (IF SliceLen(f.MeetingIds) > 0 THEN 1 ELSE 0)
                  + (IF IsNil(f.Visible) THEN 0 ELSE 1)
                  + (IF IsNil(f.Id) THEN 0 ELSE 1)
             ELSE (IF IsNil(f.HomeTeam) THEN 0 ELSE 1)
                  + (IF IsNil(f.AwayTeam) THEN 0 ELSE 1)
                  + (IF IsNil(f.VenueLocation) THEN 0 ELSE 1)
                  + (IF IsNil(f.Visible) THEN 0 ELSE 1)

\* two filters that set the same fields, carry as many meeting ids and the same
\* visible flag, and differ at most in the values of ids and strings
SameShape(r, flt1, flt2) ==
    /\ IsNil(flt1) = IsNil(flt2)
    /\ ~IsNil(flt1) =>
         LET f1 == Deref(flt1)
             f2 == Deref(flt2)
         IN  /\ f1.Visible = f2.Visible
             /\ IF r = "races"
                THEN /\ SliceLen(f1.MeetingIds) = SliceLen(f2.MeetingIds)
                     /\ IsNil(f1.Id) = IsNil(f2.Id)
                ELSE /\ IsNil(f1.HomeTeam) = IsNil(f2.HomeTeam)
                     /\ IsNil(f1.AwayTeam) = IsNil(f2.AwayTeam)
                     /\ IsNil(f1.VenueLocation) = IsNil(f2.VenueLocation)

\* the values a filter carries, in the order of its fields
FilterValues(r, flt) ==
    IF IsNil(flt) THEN <<>>
    ELSE LET f == Deref(flt)
         IN  IF r = "races"
             THEN SliceElems(f.MeetingIds) \o f.Id
             ELSE f.HomeTeam \o f.AwayTeam \o f.VenueLocation

\* the store's answer to the catalog query of this request's applyOrder call
SameAnswer ==
    [queryErr   |-> catalog.err = "query",
     rows       |-> catalog.rows,
     scanFailAt |-> IF catalog.err = "scan" THEN 1 ELSE 0]

DirectionTokens == {<<>>, <<" ", "A", "S", "C">>, <<" ", "D", "E", "S", "C">>}
\* " ORDER BY <column of the fetched catalog>[ ASC| DESC]"
ValidatedOrderTexts ==
    {<<" ", "O", "R", "D", "E", "R", " ", "B", "Y", " ">> \o c \o d : c \in catalog.validColumns, d \in DirectionTokens}
\* " ORDER BY advertised_start_time[ ASC| DESC]", the literal default of races
DefaultOrderTexts ==
    {<<" ", "O", "R", "D", "E", "R", " ", "B", "Y", " ", "a", "d", "v", "e", "r", "t", "i", "s", "e", "d", "_", "s", "t", "a", "r", "t", "_", "t", "i", "m", "e">> \o d : d \in DirectionTokens}

-----------------------------------------------------------------------------
(* Properties *)

\* C1: the SQL text that applyFilter and then applyOrder produce holds no
\* caller-supplied value: what applyOrder appended is built from the literal
\* default, columns of the catalog fetched in that call and the tokens ASC and
\* DESC only; every request of the same shape and order, whatever its meeting
\* ids, id or team and venue strings, yields the same text against the same
\* store answer; the filter's values are in the argument list.
C1_NoCallerValueInSql ==
    Ordered =>
        /\ query = filterQuery \o OrderClause
        /\ \/ OrderClause = <<>>
           \/ OrderClause \in ValidatedOrderTexts
           \/ repo = "races" /\ OrderClause \in DefaultOrderTexts
           \/ repo = "races" /\ \E d \in DefaultOrderTexts :
                  /\ IsPrefix(d, OrderClause)
                  /\ Drop(OrderClause, Len(d)) \in ValidatedOrderTexts
        /\ args = FilterValues(repo, filter)
        /\ \A f2 \in Filters(repo) :
               SameShape(repo, filter, f2) =>
                   LET r2 == applyFilter(repo, baseQuery(repo), f2)
                   IN  /\ applyOrder(repo, r2.query, order, SameAnswer).query = query
                       /\ r2.args = FilterValues(repo, f2)

\* a sports request with two string values and a validated order field went through
C1_Witness ==
    /\ Ordered
    /\ repo = "sports"
    /\ ~IsNil(filter)
    /\ Deref(filter).HomeTeam = Ptr(<<"?", "'">>)
    /\ Deref(filter).VenueLocation = Ptr(<<>>)
    /\ OrderClause = <<" ", "O", "R", "D", "E", "R", " ", "B", "Y", " ", "a", "d", "v", "e", "r", "t", "i", "s", "e", "d", "_", "s", "t", "a", "r", "t", "_", "t", "i", "m", "e", " ", "D", "E", "S", "C">>

\* C2: an order request that names a field which is not in the catalog the
\* store returned in that call leaves the query as it was, whatever the direction.
C2_UnknownFieldLeavesQuery ==
    (/\ Ordered
     /\ ~IsNil(order)
     /\ catalog.queries = 1
     /\ catalog.err = "none"
     /\ IF repo = "races"
        THEN /\ ~IsNil(Deref(order).Field)
             /\ Deref(Deref(order).Field) \notin catalog.validColumns
        ELSE Deref(order).Field \notin catalog.validColumns)
    => query = filterQuery

\* the field "unknown" was requested with a recognised direction against a seeded table
C2_Witness ==
    /\ Ordered
    /\ repo = "races"
    /\ order = Ptr([Field |-> Ptr(<<"u", "n", "k", "n", "o", "w", "n">>), Direction |-> Ptr(<<"D", "E", "S", "C">>)])
    /\ catalog.err = "none"
    /\ ColMeetingId \in catalog.validColumns
    /\ SetFields(repo, filter) > 0

\* the value the filter binds to the placeholder at position p of clause w is v
Binds(r, flt, w, p, v) ==
    LET f == Deref(flt)
    IN  IF r = "races"
        THEN \/ \E k \in 0..(SliceLen(f.MeetingIds) - 1) :
                    /\ EndsAt(w, p - 1, <<"m", "e", "e", "t", "i", "n", "g", "_", "i", "d", " ", "I", "N", " ", "(">> \o Repeat(<<"?", ",">>, k))
                    /\ v = SliceElems(f.MeetingIds)[k + 1]
             \/ /\ EndsAt(w, p - 1, <<" ", "i", "d", " ", "=", " ">>)
                /\ f.Id = Ptr(v)
        ELSE \/ EndsAt(w, p - 1, <<" ", "h", "o", "m", "e", "_", "t", "e", "a", "m", " ", "=", " ">>) /\ f.HomeTeam = Ptr(v)
             \/ EndsAt(w, p - 1, <<" ", "a", "w", "a", "y", "_", "t", "e", "a", "m", " ", "=", " ">>) /\ f.AwayTeam = Ptr(v)
             \/ EndsAt(w, p - 1, <<" ", "v", "e", "n", "u", "e", "_", "l", "o", "c", "a", "t", "i", "o", "n", " ", "=", " ">>) /\ f.VenueLocation = Ptr(v)

\* C3: the clause applyFilter emits has as many '?' placeholders as the
\* argument list has elements, and the i-th argument is the value the filter
\* binds to the i-th placeholder, reading the clause left to right.
C3_ArgsMatchPlaceholders ==
    Filtered =>
        /\ filterQuery = baseQuery(repo) \o WhereClause
        /\ Count(WhereClause, "?") = Len(args)
        /\ \A i \in 1..Len(args) :
               Binds(repo, filter, WhereClause, NthPosition(WhereClause, "?", i), args[i])

\* a races filter with two different meeting ids and an id: three placeholders
C3_Witness ==
    /\ Filtered
    /\ repo = "races"
    /\ Len(args) = 3
    /\ args[1] = 2 /\ args[2] = 1 /\ args[3] = 0
    /\ Count(WhereClause, "?") = 3

\* C4: a filter that sets no field (nil, empty, or a races filter whose
\* meeting-id list is present but empty) leaves the base query unchanged and
\* returns an empty argument list.
C4_EmptyFilterLeavesBaseQuery ==
    (Filtered /\ SetFields(repo, filter) = 0) =>
        /\ filterQuery = baseQuery(repo)
        /\ Len(args) = 0

\* a races filter whose meeting-id list is present but empty was compiled
C4_Witness ==
    /\ Filtered
    /\ repo = "races"
    /\ filter = Ptr([MeetingIds |-> Ptr(<<>>), Visible |-> Nil, Id |-> Nil])
    /\ filterQuery = racesList

\* n placeholders separated by n-1 commas, then the closing parenthesis
PlaceholderList(n) ==
    [j \in 1..(2 * n) |-> IF j = 2 * n THEN ")" ELSE IF j % 2 = 1 THEN "?" ELSE ","]

\* C5: a races filter with N >= 1 meeting ids yields the fragment
\* "meeting_id IN (?,...,?)" with N placeholders and N-1 commas, and the first
\* N arguments are the ids in their original order, duplicates included.
C5_MeetingIdsClause ==
    (/\ Filtered
     /\ repo = "races"
     /\ ~IsNil(filter)
     /\ SliceLen(Deref(filter).MeetingIds) >= 1)
    => LET ids  == SliceElems(Deref(filter).MeetingIds)
           n    == Len(ids)
           head == <<" ", "W", "H", "E", "R", "E", " ", "m", "e", "e", "t", "i", "n", "g", "_", "i", "d", " ", "I", "N", " ", "(">>
           last == Len(head) + 2 * n
       IN  /\ IsPrefix(head, WhereClause)
           /\ Len(WhereClause) >= last
           /\ SubSeq(WhereClause, Len(head) + 1, last) = PlaceholderList(n)
           /\ Len(WhereClause) = last \/ EndsAt(WhereClause, last + 5, <<" ", "A", "N", "D", " ">>)
           /\ Count(SubSeq(WhereClause, 1, last), "?") = n
           /\ Count(SubSeq(WhereClause, 1, last), ",") = n - 1
           /\ Len(args) >= n
           /\ SubSeq(args, 1, n) = ids

\* a meeting-id list holding the same id twice, followed by an id filter
C5_Witness ==
    /\ Filtered
    /\ repo = "races"
    /\ ~IsNil(filter)
    /\ Deref(filter).MeetingIds = Ptr(<<2, 2>>)
    /\ args = <<2, 2, 0>>

WithVisible(flt, v) == Ptr([Deref(flt) EXCEPT !.Visible = v])

\* C6: visible never adds a placeholder or an argument: the argument list is
\* the same whether visible is absent, true or false, and a present visible
\* shows in the clause as the literal "visible = true" or "visible = false".
C6_VisibleIsInlined ==
    (Filtered /\ ~IsNil(filter)) =>
        /\ \A v \in Opt(BOOLEAN) :
               LET r2 == applyFilter(repo, baseQuery(repo), WithVisible(filter, v))
               IN  /\ r2.args = args
                   /\ Count(Drop(r2.query, Len(baseQuery(repo))), "?")
                          = Count(WhereClause, "?")
        /\ Deref(filter).Visible = Ptr(TRUE) =>
               /\ Contains(WhereClause, <<"v", "i", "s", "i", "b", "l", "e", " ", "=", " ", "t", "r", "u", "e">>)
               /\ ~Contains(WhereClause, <<"v", "i", "s", "i", "b", "l", "e", " ", "=", " ", "f", "a", "l", "s", "e">>)
        /\ Deref(filter).Visible = Ptr(FALSE) =>
               /\ Contains(WhereClause, <<"v", "i", "s", "i", "b", "l", "e", " ", "=", " ", "f", "a", "l", "s", "e">>)
               /\ ~Contains(WhereClause, <<"v", "i", "s", "i", "b", "l", "e", " ", "=", " ", "t", "r", "u", "e">>)
        /\ IsNil(Deref(filter).Visible) => ~Contains(WhereClause, <<"v", "i", "s", "i", "b", "l", "e">>)

\* a races filter with visible = false between a meeting-id list and an id
C6_Witness ==
    /\ Filtered
    /\ repo = "races"
    /\ ~IsNil(filter)
    /\ Deref(filter).Visible = Ptr(FALSE)
    /\ args = <<1, 2, 0>>

\* the fragments a filter must yield, in the fixed order of the fields
ExpectedFragments(r, f) ==
    IF r = "races"
    THEN (IF SliceLen(f.MeetingIds) > 0
          THEN <<<<"m", "e", "e", "t", "i", "n", "g", "_", "i", "d", " ", "I", "N", " ", "(">> \o PlaceholderList(SliceLen(f.MeetingIds))>> ELSE <<>>)
         \o (IF f.Visible = Ptr(TRUE) THEN <<<<"v", "i", "s", "i", "b", "l", "e", " ", "=", " ", "t", "r", "u", "e">>>>
             ELSE IF f.Visible = Ptr(FALSE) THEN <<<<"v", "i", "s", "i", "b", "l", "e", " ", "=", " ", "f", "a", "l", "s", "e">>>> ELSE <<>>)
         \o (IF IsNil(f.Id) THEN <<>> ELSE <<<<"i", "d", " ", "=", " ", "?">>>>)
    ELSE (IF IsNil(f.HomeTeam) THEN <<>> ELSE <<<<"h", "o", "m", "e", "_", "t", "e", "a", "m", " ", "=", " ", "?">>>>)
         \o (IF IsNil(f.AwayTeam) THEN <<>> ELSE <<<<"a", "w", "a", "y", "_", "t", "e", "a", "m", " ", "=", " ", "?">>>>)
         \o (IF IsNil(f.VenueLocation) THEN <<>> ELSE <<<<"v", "e", "n", "u", "e", "_", "l", "o", "c", "a", "t", "i", "o", "n", " ", "=", " ", "?">>>>)
         \o (IF f.Visible = Ptr(TRUE) THEN <<<<"v", "i", "s", "i", "b", "l", "e", " ", "=", " ", "t", "r", "u", "e">>>>
             ELSE IF f.Visible = Ptr(FALSE) THEN <<<<"v", "i", "s", "i", "b", "l", "e", " ", "=", " ", "f", "a", "l", "s", "e">>>> ELSE <<>>)

\* the fragments with " AND " between neighbours
RECURSIVE Conjunction(_)
Conjunction(frags) ==
    IF Len(frags) = 1 THEN frags[1]
    ELSE Conjunction(SubSeq(frags, 1, Len(frags) - 1)) \o <<" ", "A", "N", "D", " ">> \o frags[Len(frags)]

\* C7: with at least one field set, applyFilter appends " WHERE " and one
\* fragment per set field joined by " AND ", in the fixed order meeting_id IN,
\* visible, id (races) and home_team, away_team, venue_location, visible (sports).
C7_WhereClauseInFieldOrder ==
    (Filtered /\ SetFields(repo, filter) > 0) =>
        /\ Len(ExpectedFragments(repo, Deref(filter))) = SetFields(repo, filter)
        /\ filterQuery = baseQuery(repo) \o <<" ", "W", "H", "E", "R", "E", " ">>
                             \o Conjunction(ExpectedFragments(repo, Deref(filter)))

\* a sports filter that sets all four fields
C7_Witness ==
    /\ Filtered
    /\ repo = "sports"
    /\ SetFields(repo, filter) = 4
    /\ WhereClause = <<" ", "W", "H", "E", "R", "E", " ", "h", "o", "m", "e", "_", "t", "e", "a", "m", " ", "=", " ", "?", " ", "A", "N", "D", " ", "a", "w", "a", "y", "_", "t", "e", "a", "m", " ", "=", " ", "?", " ", "A", "N", "D", " ", "v", "e", "n", "u", "e", "_", "l", "o", "c", "a", "t", "i", "o", "n", " ", "=", " ", "?", " ", "A", "N", "D", " ", "v", "i", "s", "i", "b", "l", "e", " ", "=", " ", "f", "a", "l", "s", "e">>

\* C8: with no order request, applyOrder returns its input query and issues
\* no catalog query.
C8_NilOrderNoCatalogQuery ==
    (Ordered /\ IsNil(order)) =>
        /\ query = filterQuery
        /\ catalog.queries = 0

\* a request without order ran against an existing table, after a filter was compiled
C8_Witness ==
    /\ Ordered
    /\ IsNil(order)
    /\ Len(columns) > 0
    /\ SetFields(repo, filter) > 0
    /\ repo = "races"

\* two texts are equal up to the case of their letters
EqualFold(a, b) ==
    /\ Len(a) = Len(b)
    /\ \A i \in 1..Len(a) : ToUpperChar(a[i]) = ToUpperChar(b[i])

\* the suffix a direction must yield: " ASC" or " DESC" for a present direction
\* that is one of the two tokens up to case, nothing otherwise
ExpectedDirection(d) ==
    IF IsNil(d) THEN <<>>
    ELSE IF EqualFold(Deref(d), <<"A", "S", "C">>) THEN <<" ", "A", "S", "C">>
    ELSE IF EqualFold(Deref(d), <<"D", "E", "S", "C">>) THEN <<" ", "D", "E", "S", "C">>
    ELSE <<>>

\* C9: for a races order request without field, applyOrder returns the input
\* query followed by " ORDER BY advertised_start_time" and the direction
\* suffix, and nothing else.
C9_DefaultOrder ==
    (/\ Ordered
     /\ repo = "races"
     /\ ~IsNil(order)
     /\ IsNil(Deref(order).Field))
    => query = filterQuery \o <<" ", "O", "R", "D", "E", "R", " ", "B", "Y", " ", "a", "d", "v", "e", "r", "t", "i", "s", "e", "d", "_", "s", "t", "a", "r", "t", "_", "t", "i", "m", "e">>
                   \o ExpectedDirection(Deref(order).Direction)

\* the field an order request names, if it names one (a races request may not)
FieldRequested == ~IsNil(order) /\ (repo = "races" => ~IsNil(Deref(order).Field))
RequestedField ==
    IF repo = "races" THEN Deref(Deref(order).Field) ELSE Deref(order).Field

\* C10: an order request whose field is in the fetched catalog gets
\* " ORDER BY " + field, followed by " ASC" or " DESC" exactly when a direction
\* is present and its upper-cased value is ASC or DESC.
C10_ValidFieldOrder ==
    (/\ Ordered
     /\ FieldRequested
     /\ catalog.queries = 1
     /\ catalog.err = "none"
     /\ RequestedField \in catalog.validColumns)
    => query = filterQuery \o <<" ", "O", "R", "D", "E", "R", " ", "B", "Y", " ">> \o RequestedField
                   \o ExpectedDirection(Deref(order).Direction)

\* a lower-case direction on a column of the catalog
C10_Witness ==
    /\ Ordered
    /\ repo = "races"
    /\ order = Ptr([Field |-> Ptr(ColAdvertisedStartTime), Direction |-> Ptr(<<"a", "s", "c">>)])
    /\ OrderClause = <<" ", "O", "R", "D", "E", "R", " ", "B", "Y", " ", "a", "d", "v", "e", "r", "t", "i", "s", "e", "d", "_", "s", "t", "a", "r", "t", "_", "t", "i", "m", "e", " ", "A", "S", "C">>

\* the catalog query of this applyOrder call failed, or a row of its result
\* could not be scanned
CatalogFailed == catalog.queries = 1 /\ catalog.err \in {"query", "scan"}

\* C11: for every present order request, whatever its field and direction,
\* when the catalog query fails or a catalog row cannot be scanned, applyOrder
\* returns its input query unchanged.
C11_CatalogFailureLeavesQuery ==
    (Ordered /\ ~IsNil(order) /\ CatalogFailed) => query = filterQuery

\* List / GetByID is about to return (returned and listErr hold its results)
ListDone == pc = "done" /\ op = "List"
GetByIDDone == pc = "done" /\ op = "GetByID"

\* what the store did with the request's main statement: db.Query returned an
\* error, a Scan failed, the cursor broke while the statement was stepped
QueryFailed == mainAnswer.queryErr
ScanFailed == ~mainAnswer.queryErr /\ mainAnswer.scanFailAt > 0
CursorFailed == ~mainAnswer.queryErr /\ mainAnswer.iterErr
MainSucceeded == ~QueryFailed /\ ~ScanFailed /\ ~CursorFailed

\* the request named an order field that the catalog it fetched does not hold
UnknownFieldRequested ==
    /\ FieldRequested
    /\ catalog.err = "none"
    /\ catalog.queries = 1
    /\ RequestedField \notin catalog.validColumns

\* the store accepts the text q as a statement on the table as it is now
Accepted(q) == statementValid(q, baseQuery(repo), tableColumns(repo), columns)

\* the entity is the one scanned from the row
ScannedFrom(e, row) ==
    /\ e.Id = row[ColId]
    /\ e.Visible = (row[ColVisible] = 1)
    /\ ~IsNil(e.AdvertisedStartTime)
    /\ AsTime(Deref(e.AdvertisedStartTime)) = row[ColAdvertisedStartTime] * NanosPerSecond
    /\ IF repo = "races"
       THEN /\ e.MeetingId = row[ColMeetingId]
            /\ e.Name = row[ColName]
            /\ e.Number = row[ColNumber]
       ELSE /\ e.HomeTeam = row[ColHomeTeam]
            /\ e.AwayTeam = row[ColAwayTeam]
            /\ e.VenueLocation = row[ColVenueLocation]

\* the order names a direction that parseDirection does not recognise
UnrecognisedDirection ==
    /\ ~IsNil(order)
    /\ ~IsNil(Deref(order).Direction)
    /\ parseDirection(GetDirection(Deref(order))) = <<>>

\* what the store answered to the catalog query of this request
CatalogAnswer ==
    [queryErr |-> catalog.err = "query", rows |-> catalog.rows,
     scanFailAt |-> IF catalog.err = "scan" THEN 1 ELSE 0]

\* the statement applyOrder builds for the same request without its direction
QueryWithoutDirection ==
    applyOrder(repo, filterQuery, Ptr([Deref(order) EXCEPT !.Direction = Nil]), CatalogAnswer).query

\* C12: List returns an error only when executing the main statement or
\* scanning one of its rows fails.  An unknown order field or a failed catalog
\* fetch leaves the statement as acceptable to the store as it was before
\* ordering, an unrecognised direction leaves the statement what it is without
\* a direction, and whenever the main query succeeds List returns the entities
\* scanned from the selected rows, in order, with a nil error.
C12_ListErrorOnlyFromMainQuery ==
    ListDone =>
        /\ listErr # "none" => (QueryFailed \/ ScanFailed)
        /\ (UnknownFieldRequested \/ CatalogFailed) => (Accepted(query) <=> Accepted(filterQuery))
        /\ UnrecognisedDirection => query = QueryWithoutDirection
        /\ MainSucceeded =>
               LET selected == selectRows(query, args, baseQuery(repo), table)
               IN  /\ listErr = "none"
                   /\ SliceLen(returned) = Len(selected)
                   /\ \A i \in 1..Len(selected) :
                          ScannedFrom(SliceElems(returned)[i], selected[i])

\* the catalog fetch failed, the main query succeeded: every row is returned
C12_Witness ==
    /\ ListDone
    /\ catalog.err = "query"
    /\ IsNil(filter)
    /\ MainSucceeded
    /\ listErr = "none"
    /\ SliceLen(returned) = SeedRows

\* C13: when the main query of List or GetByID fails, be it in db.Query or
\* while the cursor is stepped, the request returns that error and no entities,
\* has sent its main statement exactly once, and has not called the annotator.
C13_MainQueryFailure ==
    ((ListDone \/ GetByIDDone) /\ (QueryFailed \/ CursorFailed)) =>
        /\ listErr = "query"
        /\ IsNil(returned)
        /\ Len(executed) = 1
        /\ annotations = 0

\* rows of the table with the id GetByID was called with
RowsWithId == SelectSeq(table, LAMBDA row : row[ColId] = Deref(Deref(filter).Id))

\* C14: GetByID returns ErrCantFindID exactly when its query succeeds and no
\* row has the id, whatever the id; when a row has it, GetByID returns the
\* race of that row, annotated, with a nil error.  List never returns
\* ErrCantFindID: when no row is selected it returns an empty list and no error.
C14_NotFoundSentinel ==
    /\ GetByIDDone =>
           /\ listErr = "ErrCantFindID" <=> (MainSucceeded /\ RowsWithId = <<>>)
           /\ (MainSucceeded /\ RowsWithId # <<>>) =>
                  /\ listErr = "none"
                  /\ ~IsNil(returned)
                  /\ ScannedFrom(Deref(returned), RowsWithId[1])
                  /\ Deref(returned).Status \in {"OPEN", "CLOSED"}
    /\ ListDone =>
           /\ listErr # "ErrCantFindID"
           /\ (MainSucceeded /\ mainAnswer.rows = <<>>) =>
                  (listErr = "none" /\ SliceLen(returned) = 0)

\* a direct call of the annotator has returned
Annotated == pc = "done" /\ op = "annotate"

\* C15: after annotation, for every entity of the collection: the status is ""
\* exactly when the start instant is absent, "OPEN" exactly when the start
\* instant is strictly later than the instant the entity was evaluated at, and
\* "CLOSED" otherwise, a start instant equal to the evaluation instant included.
C15_StatusFromStartInstant ==
    Annotated =>
        \A i \in 1..SliceLen(returned) :
            LET e == SliceElems(returned)[i]
                start == e.AdvertisedStartTime
            IN  /\ e.Status = "" <=> IsNil(start)
                /\ IsNil(start) <=> IsNil(evaluatedAt[i])
                /\ ~IsNil(start) =>
                       /\ Deref(evaluatedAt[i]) \in 0..now
                       /\ e.Status = "OPEN" <=>
                              Deref(start).Seconds * NanosPerSecond + Deref(start).Nanos
                                  > Deref(evaluatedAt[i])
                       /\ e.Status \in {"OPEN", "CLOSED"}

\* two entities starting at instant 1: the first evaluated at 0 is open, the
\* second evaluated at 1, its start instant, is closed
C15_Witness ==
    /\ Annotated
    /\ SliceLen(returned) = 2
    /\ evaluatedAt = <<Ptr(0), Ptr(1)>>
    /\ \A i \in 1..2 : SliceElems(returned)[i].AdvertisedStartTime = Ptr([Seconds |-> 0, Nanos |-> 1])
    /\ SliceElems(returned)[1].Status = "OPEN"
    /\ SliceElems(returned)[2].Status = "CLOSED"

\* C16: addDerivedFields sets the name of every event of the collection to
\* away team, " vs ", home team, whether or not the event has a start instant
\* and whatever its name was before.
C16_NameIsAwayVsHome ==
    (Annotated /\ repo = "sports") =>
        \A i \in 1..SliceLen(returned) :
            LET e == SliceElems(returned)[i]
            IN  e.Name = e.AwayTeam \o <<" ", "v", "s", " ">> \o e.HomeTeam

\* an event without start instant that carried another name
C16_Witness ==
    /\ Annotated
    /\ repo = "sports"
    /\ SliceLen(returned) = 1
    /\ SliceElems(given)[1].Name = <<"o", "l", "d">>
    /\ IsNil(SliceElems(given)[1].AdvertisedStartTime)
    /\ SliceElems(returned)[1].Name = <<"a", "w", "a", "y", " ", "v", "s", " ", "h", "o", "m", "e">>

\* the persisted fields of an entity, and the fields the annotator derives
PersistedFields(r) ==
    IF r = "races"
    THEN {"Id", "MeetingId", "Name", "Number", "Visible", "AdvertisedStartTime"}
    ELSE {"Id", "HomeTeam", "AwayTeam", "VenueLocation", "Visible", "AdvertisedStartTime"}

\* C17: the annotator returns the collection it was given: nil for nil, and
\* otherwise a collection of the same length holding the same entities in the
\* same order with every persisted field unchanged.
C17_AnnotatorKeepsCollection ==
    Annotated =>
        /\ IsNil(returned) <=> IsNil(given)
        /\ SliceLen(returned) = SliceLen(given)
        /\ \A i \in 1..SliceLen(given) :
               \A f \in PersistedFields(repo) :
                   SliceElems(returned)[i][f] = SliceElems(given)[i][f]

\* two races of which the annotator changed the status
C17_Witness ==
    /\ Annotated
    /\ repo = "races"
    /\ SliceLen(given) = 2
    /\ \A i \in 1..2 : SliceElems(given)[i].Status # SliceElems(returned)[i].Status

\* C18: for one repository, under any number of sequential or concurrent Init
\* calls, seed executes at most once, and no Init call returns before that
\* execution has finished.
C18_SeedOnceBeforeAnyReturn ==
    /\ seedRuns <= 1
    /\ \A c \in Callers :
           initCalls[c].pc \in {"return", "returned"} => (seedRuns = 1 /\ seedEnds = 1)

\* one caller ran seed to its end and has returned while another, which found
\* the gate open before seed finished, still waits to take the mutex
C18_Witness ==
    /\ seedEnds = 1
    /\ Len(table) = SeedRows
    /\ \E c, d \in Callers :
           /\ initCalls[c].pc = "returned"
           /\ initCalls[d].pc = "lock"

\* the request sent its main statement to the store (List is about to return)
Executed == pc = "done" /\ op = "List" /\ Len(executed) > 0

\* C19: for every filter and order, the statement List executes is the base
\* select, then the optional " WHERE ..." text, then the optional
\* " ORDER BY ..." text, in that order, and the arguments handed to the store
\* are exactly the argument list applyFilter returned.
C19_StatementAndArgs ==
    Executed =>
        LET compiled == applyFilter(repo, baseQuery(repo), filter)
            stmt == executed[Len(executed)]
            where == Drop(compiled.query, Len(baseQuery(repo)))
            orderBy == Drop(stmt.query, Len(compiled.query))
        IN  /\ stmt.query = baseQuery(repo) \o where \o orderBy
            /\ where = <<>> \/ IsPrefix(<<" ", "W", "H", "E", "R", "E", " ">>, where)
            /\ orderBy = <<>> \/ IsPrefix(<<" ", "O", "R", "D", "E", "R", " ", "B", "Y", " ">>, orderBy)
            /\ ~Contains(where, <<" ", "O", "R", "D", "E", "R", " ", "B", "Y", " ">>)
            /\ ~Contains(orderBy, <<" ", "W", "H", "E", "R", "E", " ">>)
            /\ stmt.args = compiled.args

\* a statement with both texts and two bound arguments was executed
C19_Witness ==
    /\ Executed
    /\ repo = "races"
    /\ Len(executed[1].args) = 2
    /\ WhereClause # <<>>
    /\ OrderClause = <<" ", "O", "R", "D", "E", "R", " ", "B", "Y", " ", "a", "d", "v", "e", "r", "t", "i", "s", "e", "d", "_", "s", "t", "a", "r", "t", "_", "t", "i", "m", "e", " ", "D", "E", "S", "C">>

\* an order request is present and its field is the empty string: a races
\* field pointer to "", a sports field left at its zero value
EmptyFieldRequested == FieldRequested /\ RequestedField = <<>>

\* C20 as stated: a present order request whose field is the empty string is
\* ordered by the default column: the input query followed by
\* " ORDER BY advertised_start_time" and the direction suffix.
C20_EmptyFieldDefaultOrder ==
    (Ordered /\ EmptyFieldRequested)
    => query = filterQuery \o <<" ", "O", "R", "D", "E", "R", " ", "B", "Y", " ", "a", "d", "v", "e", "r", "t", "i", "s", "e", "d", "_", "s", "t", "a", "r", "t", "_", "t", "i", "m", "e">>
                   \o ExpectedDirection(Deref(order).Direction)

\* C20 amended: a present order request whose field is the empty string gets no
\* default column: the empty name is looked up in the catalog like any other
\* field, and unless the fetched catalog holds a column of that name the input
\* query is returned unchanged, whatever the direction.
C20_EmptyFieldIsLookedUp ==
    (Ordered /\ EmptyFieldRequested)
    => /\ catalog.queries = 1
       /\ query = IF catalog.err = "none" /\ <<>> \in catalog.validColumns
                  THEN filterQuery \o <<" ", "O", "R", "D", "E", "R", " ", "B", "Y", " ">>
                           \o ExpectedDirection(Deref(order).Direction)
                  ELSE filterQuery

\* an events request with the field left empty and a recognized direction,
\* against the seeded table: nothing was appended
C20_Witness ==
    /\ Ordered
    /\ repo = "sports"
    /\ order = Ptr([Field |-> <<>>, Direction |-> Ptr(<<"D", "E", "S", "C">>)])
    /\ catalog.err = "none"
    /\ catalog.validColumns = Range(eventsTableColumns)
    /\ query = filterQuery


\* the column names that follow " ORDER BY " in a text
RECURSIVE OrderFields(_)
OrderFields(s) ==
    IF hasText(s, <<" ", "O", "R", "D", "E", "R", " ", "B", "Y", " ">>)
    THEN LET rest == after(s, <<" ", "O", "R", "D", "E", "R", " ", "B", "Y", " ">>)
         IN  {before(rest, <<" ">>)} \cup OrderFields(rest)
    ELSE {}

\* a races order request is present and names no field
DefaultRequested == repo = "races" /\ ~IsNil(order) /\ IsNil(Deref(order).Field)

\* C21 as stated: the default field is validated like a requested one.  For a
\* races order request with no field, if the catalog fetched during the call
\* does not contain advertised_start_time the input query is returned
\* unchanged, and every field name that follows " ORDER BY " in an output of
\* applyOrder is a member of the catalog fetched in that call.
C21_DefaultFieldValidated ==
    Ordered =>
        /\ (/\ DefaultRequested
            /\ catalog.queries = 1
            /\ catalog.err = "none"
            /\ ColAdvertisedStartTime \notin catalog.validColumns) => query = filterQuery
        /\ OrderFields(OrderClause) \subseteq catalog.validColumns

\* C21 amended: the default field is not validated.  For a races order request
\* with no field the output starts with the input query followed by
\* " ORDER BY advertised_start_time" and the direction suffix, whatever the
\* catalog holds and whether or not it could be fetched; every other field name
\* that follows " ORDER BY " in an output of applyOrder is a member of the
\* catalog fetched in that call.
C21_DefaultFieldNotValidated ==
    Ordered =>
        /\ DefaultRequested =>
               IsPrefix(filterQuery \o <<" ", "O", "R", "D", "E", "R", " ", "B", "Y", " ", "a", "d", "v", "e", "r", "t", "i", "s", "e", "d", "_", "s", "t", "a", "r", "t", "_", "t", "i", "m", "e">>
                            \o ExpectedDirection(Deref(order).Direction), query)
        /\ OrderFields(OrderClause) \subseteq
               catalog.validColumns
                   \cup (IF DefaultRequested THEN {ColAdvertisedStartTime} ELSE {})

\* a races request without field while the table has no advertised_start_time
\* column: the catalog was fetched without it and the default order was appended
C21_Witness ==
    /\ Ordered
    /\ DefaultRequested
    /\ catalog.queries = 1
    /\ catalog.err = "none"
    /\ ColAdvertisedStartTime \notin catalog.validColumns
    /\ OrderClause = <<" ", "O", "R", "D", "E", "R", " ", "B", "Y", " ", "a", "d", "v", "e", "r", "t", "i", "s", "e", "d", "_", "s", "t", "a", "r", "t", "_", "t", "i", "m", "e">>

\* C22: within one List request with a present order the steps happen in the
\* order filter compilation, catalog query, main query, scanning, annotation,
\* each at most once: the main statement is not sent before the catalog query
\* has returned, and the annotator is called once, after the main statement
\* was sent once and every row its cursor yielded has been scanned.
C22_StepsInOrder ==
    (op = "List" /\ ~IsNil(order)) =>
        /\ catalog.queries <= 1 /\ Len(executed) <= 1 /\ annotations <= 1
        /\ pc = "order" =>
               /\ filterQuery = applyFilter(repo, baseQuery(repo), filter).query
               /\ catalog.queries = 0 /\ executed = <<>> /\ annotations = 0
        /\ pc = "query" => (catalog.queries = 1 /\ executed = <<>> /\ annotations = 0)
        /\ Len(executed) = 1 => (catalog.queries = 1 /\ executed[1].query = query)
        /\ pc \in {"annotate", "done"} => Len(executed) = 1
        /\ (annotations = 1 \/ Len(evaluatedAt) > 0) =>
               /\ Len(executed) = 1
               /\ annotations = 1
               /\ ~QueryFailed /\ ~ScanFailed
               /\ SliceLen(given) = Len(mainAnswer.rows)
               /\ \A i \in 1..Len(mainAnswer.rows) :
                      ScannedFrom(SliceElems(given)[i], mainAnswer.rows[i])

\* an ordered List request that went through every step and annotated all the
\* rows of the table
C22_Witness ==
    /\ ListDone
    /\ ~IsNil(order)
    /\ catalog.queries = 1
    /\ Len(executed) = 1
    /\ annotations = 1
    /\ Len(mainAnswer.rows) = SeedRows
    /\ Len(evaluatedAt) = SeedRows

\* List has fetched the catalog and is about to send its main statement, and
\* the table's columns are no longer those the catalog query returned
SchemaChangedSinceCatalog ==
    /\ op = "List"
    /\ pc = "query"
    /\ catalog.queries = 1
    /\ catalog.err = "none"
    /\ Range(catalog.rows) # Range(columns)

\* C23: a change of the table's columns between the catalog query and the main
\* query of a List request is tolerated.  Whenever the store would still accept
\* the request's statement without ordering, it accepts the statement List is
\* about to send, so that the worst outcome of the change is a listing without
\* the requested order.
C23_SchemaChangeTolerated ==
    (SchemaChangedSinceCatalog /\ Accepted(filterQuery)) => Accepted(query)

C30_StatusMonotone ==
    [][(/\ pc = "annotate"
        /\ op = "annotate"
        /\ idx' = idx + 1
        /\ idx <= Len(evaluatedAt)
        /\ ~IsNil(SliceElems(entities)[idx].AdvertisedStartTime)) =>
           LET e == SliceElems(entities)[idx]
               e2 == SliceElems(entities')[idx]
           IN  /\ Deref(evaluatedAt[idx]) <= now
               /\ e2.AdvertisedStartTime = e.AdvertisedStartTime
               /\ e.Status = "CLOSED" => e2.Status = "CLOSED"
               /\ Deref(evaluatedAt[idx]) = now => e2.Status = e.Status]_vars

\* an entity was annotated twice: open at the first evaluation, closed at the
\* second one, which happened later
C30_Witness ==
    /\ Annotated
    /\ annotations = 2
    /\ SliceLen(returned) > 0
    /\ SliceElems(given)[1].Status = "OPEN"
    /\ SliceElems(returned)[1].Status = "CLOSED"
    /\ SliceElems(returned)[1].AdvertisedStartTime = SliceElems(given)[1].AdvertisedStartTime

\* number of occurrences of the text sub in s
Occurrences(s, sub) == Cardinality({e \in 1..Len(s) : EndsAt(s, e, sub)})

\* C26: applyOrder only appends to its input, and appends at most one
\* " ORDER BY " clause, for every order request and every catalog the store
\* can return, one with a column named by the empty string included.
C26_AppendsAtMostOneOrderBy ==
    Ordered =>
        /\ IsPrefix(filterQuery, query)
        /\ Occurrences(OrderClause, <<" ", "O", "R", "D", "E", "R", " ", "B", "Y", " ">>) <= 1

\* the entities a finished request handed to its caller
ReturnedEntities ==
    IF op = "List" THEN SliceElems(returned)
    ELSE IF IsNil(returned) THEN <<>> ELSE <<Deref(returned)>>

\* C27: every entity List or GetByID returns has a present start instant, the
\* one scanned from its row, and the status "OPEN" or "CLOSED", never "".
C27_ReturnedEntitiesHaveStatus ==
    (ListDone \/ GetByIDDone) =>
        \A i \in 1..Len(ReturnedEntities) :
            LET e == ReturnedEntities[i]
            IN  /\ ~IsNil(e.AdvertisedStartTime)
                /\ \E k \in 1..Len(table) :
                       /\ table[k][ColId] = e.Id
                       /\ AsTime(Deref(e.AdvertisedStartTime))
                              = table[k][ColAdvertisedStartTime] * NanosPerSecond
                /\ e.Status \in {"OPEN", "CLOSED"}

\* a listing of the whole table with an open and a closed entity in it
C27_Witness ==
    /\ ListDone
    /\ listErr = "none"
    /\ Len(ReturnedEntities) = SeedRows
    /\ \E i, j \in 1..SeedRows :
           /\ ReturnedEntities[i].Status = "OPEN"
           /\ ReturnedEntities[j].Status = "CLOSED"

\* C28: Init reports a failed seed to every caller.  When the one execution of
\* seed returned an error, every Init call that has returned, be it the call
\* that ran seed, a call that waited for it or a later call, has returned a
\* non-nil error.
C28_SeedFailureReported ==
    \A c \in Callers :
        (initCalls[c].pc = "returned" /\ seedEnds = 1 /\ seedErr # "none")
            => initCalls[c].err # "none"

\* C29: every row cursor opened during a request, the catalog cursor of
\* applyOrder and the listing cursor of scanRaces / scanEvents, is exhausted
\* or closed by the time the function that reads it returns, on every path,
\* so that no sequence of requests accumulates open cursors.
C29_NoCursorLeftOpen == openCursors = 0

====
